---- MODULE Spec2Model ----
(***************************************************************************)
(* A model of the MyBrain answer pipeline (backend/api/chat.py), of the    *)
(* conversation memory it uses (backend/core/conversation_memory.py), of   *)
(* the chunker (backend/core/chunking.py), of text ingestion               *)
(* (backend/api/ingest.py), of retrieval (backend/core/retrieval.py), of  *)
(* the query router (backend/core/smart_routing.py) and of cross-context   *)
(* reasoning (backend/core/cross_context_reasoning.py).                    *)
(*                                                                         *)
(* A text is a sequence of words; a word is a string.  Python's None is    *)
(* the record None.  Scores are counted in hundredths (0.7 is 70).         *)
(***************************************************************************)
EXTENDS Integers, Sequences, FiniteSets, TLC

VARIABLES
    current_intent,   \* conversation_memory.current_intent (module-level singleton)
    call,             \* unit level: the ConversationMemory method last called, with its arguments
    ret,              \* unit level: what that call returned
    pc,               \* per request slot: the await the pipeline is suspended at
    request,          \* per request slot: the ChatRequest
    fuzzy_docs,       \* per request slot: local fuzzy_docs
    routing_result,   \* per request slot: local routing_result
    search_results,   \* per request slot: local search_results, what gather returned;
                      \* it is read by the merge only and forgotten at the next resumption
    unique_chunks,    \* per request slot: local unique_chunks
    initial_response, \* per request slot: local initial_response
    judge_reply,      \* per request slot: what the quality-judgment call answered
    quality_score,    \* per request slot: local quality_score
    should_remind,    \* per request slot: local should_remind
    fallback_response,\* per request slot: local fallback_response
    calls,            \* per request slot: the external calls awaited so far
    outcome,          \* per request slot: what chat() hands to its caller
    tables,           \* the database: rows of documents, chunks and colbert_tokens
    ingest            \* the ingest_text coroutine: its position and locals

vars == <<current_intent, call, ret, pc, request, fuzzy_docs, routing_result,
          search_results, unique_chunks, initial_response, judge_reply, quality_score,
          should_remind, fallback_response, calls, outcome, tables, ingest>>

unit_vars == <<call, ret>>

ingest_vars == <<tables, ingest>>

pipeline_vars == <<pc, request, fuzzy_docs, routing_result, search_results,
                   unique_chunks, initial_response, judge_reply, quality_score,
                   should_remind, fallback_response, calls, outcome>>

None == [tag |-> "None"]

(***************************************************************************)
(* Bounds of the model.                                                    *)
(***************************************************************************)
\* most keywords an original question of the unit-level histories carries
MaxKeywords == 10
\* most repetitions of one keyword in such a question
MaxDup == 3
\* most track_search_attempt calls on one intent at unit level
MaxAttempts == 3

(***************************************************************************)
(* Texts.                                                                  *)
(***************************************************************************)
\* str.lower() on the words of the vocabulary
Lower(w) ==
    CASE w = "Docker" -> "docker"
      [] w = "Wie" -> "wie"
      [] w = "Hallo" -> "hallo"
      [] w = "Max" -> "max"
      [] w = "Video" -> "video"
      [] w = "Anna" -> "anna"
      [] w = "Kochen" -> "kochen"
      [] w = "Nina" -> "nina"
      [] w = "Was" -> "was"
      [] w = "Alpha" -> "alpha"
      [] w = "Beta" -> "beta"
      [] w = "Gamma" -> "gamma"
      [] OTHER -> w

LowerText(text) == [i \in 1..Len(text) |-> Lower(text[i])]

RECURSIVE CharLen(_)
\* len(text): the words joined by single blanks
CharLen(text) ==
    IF text = <<>> THEN 0
    ELSE IF Len(text) = 1 THEN Len(text[1])
    ELSE Len(text[1]) + 1 + CharLen(Tail(text))

Range(seq) == {seq[i] : i \in 1..Len(seq)}

\* the stopwords of _extract_keywords
stopwords ==
    {"der", "die", "das", "und", "oder", "aber", "mit", "von", "zu",
     "in", "auf", "an", "für", "bei", "ist", "sind", "war", "waren",
     "the", "a", "and", "or", "but", "with", "from", "to"}

\* the shortest word kept is one letter longer than this
KeywordMinLen == 3

_extract_keywords(text) ==
    SelectSeq(LowerText(text), LAMBDA w : w \notin stopwords /\ Len(w) > KeywordMinLen)

\* the greetings of _is_greeting
greetings == {"hallo", "hi", "hey", "servus", "moin"}

\* the words of the vocabulary that begin with one of the greetings
GreetingPrefixed == greetings \cup {"hilfe", "heyho"}

GreetingMaxLen == 20

_is_greeting(text) ==
    /\ text # <<>>
    /\ \/ Lower(text[1]) \in GreetingPrefixed
       \/ Len(text) >= 2 /\ Lower(text[1]) = "guten" /\ Lower(text[2]) = "tag"
    /\ CharLen(text) < GreetingMaxLen

(***************************************************************************)
(* ConversationMemory.                                                     *)
(***************************************************************************)
ConversationIntent(question) ==
    [tag |-> "ConversationIntent", original_question |-> question, search_attempts |-> <<>>]

\* a user message counts as the question when it is longer than this
SubstantiveMinLen == 20

IsSubstantive(msg) ==
    /\ msg.role = "user"
    /\ CharLen(msg.content) > SubstantiveMinLen
    /\ ~_is_greeting(msg.content)

RECURSIVE FirstSubstantive(_)
\* the loop of extract_intent: the content of the first substantive user message, <<>> for none
FirstSubstantive(messages) ==
    IF messages = <<>> THEN <<>>
    ELSE IF IsSubstantive(Head(messages)) THEN Head(messages).content
    ELSE FirstSubstantive(Tail(messages))

extract_intent(messages) ==
    IF messages = <<>> THEN None
    ELSE LET found == FirstSubstantive(messages)
             original_question ==
                 IF found = <<>> THEN messages[Len(messages)].content ELSE found
         IN  ConversationIntent(original_question)

SearchAttempt(query, results_found, strategy) ==
    [query |-> query, strategy |-> strategy, found_results |-> results_found]

\* the value of current_intent after track_search_attempt
track_search_attempt(intent, query, results_found, strategy) ==
    IF intent # None
    THEN [intent EXCEPT !.search_attempts =
              Append(@, SearchAttempt(query, results_found, strategy))]
    ELSE intent

\* a reminder needs at least this many search attempts
RemindMinAttempts == 2

\* overlap < len(original_keywords) * 0.3, in tenths
LowOverlap(overlap, n_original) == 10 * overlap < 3 * n_original

should_remind_original_question(intent, current_response) ==
    IF intent = None THEN FALSE
    ELSE IF Len(intent.search_attempts) >= RemindMinAttempts
    THEN LET original_keywords == _extract_keywords(intent.original_question)
             response_keywords == _extract_keywords(current_response)
             overlap == Cardinality(Range(original_keywords) \cap Range(response_keywords))
         IN  LowOverlap(overlap, Len(original_keywords))
    ELSE FALSE

ReminderPrefix == <<"---", "Zur", "Erinnerung", "an", "deine", "ursprüngliche", "Frage:">>

format_reminder(intent) ==
    IF intent = None THEN <<>>
    ELSE ReminderPrefix \o intent.original_question

(***************************************************************************)
(* ConversationMemory driven method by method.                             *)
(***************************************************************************)
KeywordPool ==
    <<"docker", "compose", "container", "server", "python", "backup",
      "cluster", "router", "github", "kubernetes", "linux", "terminal">>

\* a question with the first n keywords of the pool, then dup more occurrences of the first
OriginalQuestion(n, dup) ==
    <<"Wie", "ist">> \o SubSeq(KeywordPool, 1, n) \o [i \in 1..dup |-> KeywordPool[1]]

\* a response that names the first m keywords of the pool
ResponseNaming(m) ==
    IF m = 0 THEN <<"keine", "ahnung">>
    ELSE <<"Docker">> \o SubSeq(KeywordPool, 2, m) \o <<"und", "api">>

UserMessage(text) == [role |-> "user", content |-> text]
AssistantMessage(text) == [role |-> "assistant", content |-> text]

UnitHistories ==
    {<<>>} \cup {<<UserMessage(OriginalQuestion(n, d))>> :
                    n \in 0..MaxKeywords, d \in 0..MaxDup}

UnitResponses == {ResponseNaming(m) : m \in 0..MaxKeywords}

\* memory.current_intent = memory.extract_intent(messages)
MemExtractIntent ==
    /\ \E messages \in UnitHistories :
          /\ current_intent' = extract_intent(messages)
          /\ call' = [op |-> "extract_intent"]
    /\ ret' = FALSE
    /\ UNCHANGED <<pipeline_vars, ingest_vars>>

\* memory.track_search_attempt(query, results_found, strategy)
MemTrackSearchAttempt ==
    /\ current_intent # None => Len(current_intent.search_attempts) < MaxAttempts
    /\ \E results_found \in BOOLEAN :
          current_intent' =
              track_search_attempt(current_intent, <<"docker">>, results_found, "general")
    /\ call' = [op |-> "track_search_attempt"]
    /\ ret' = FALSE
    /\ UNCHANGED <<pipeline_vars, ingest_vars>>

\* memory.should_remind_original_question(current_response)
MemShouldRemind ==
    /\ \E current_response \in UnitResponses :
          /\ call' = [op |-> "should_remind_original_question",
                      current_response |-> current_response]
          /\ ret' = should_remind_original_question(current_intent, current_response)
    /\ UNCHANGED <<current_intent, pipeline_vars, ingest_vars>>

(***************************************************************************)
(* The inputs of the pipeline and the replies of its collaborators.        *)
(***************************************************************************)
\* request slots served by the process
MaxRequests == 2

Slots == 1..MaxRequests

EmptyQuery == <<>>
ReasoningQuery == <<"erkläre", "Docker">>
GeneralQuery == <<"wie", "funktioniert", "docker", "compose">>
VideoQuery == <<"video", "von", "max", "über", "docker">>

Queries == {EmptyQuery, ReasoningQuery, GeneralQuery, VideoQuery}

\* what a completion call may answer
AnswerOnTopic == <<"docker", "compose", "funktioniert", "mit", "yaml">>
AnswerOffTopic == <<"dazu", "habe", "ich", "nichts">>

Answers == {AnswerOnTopic, AnswerOffTopic}

\* the history of a session's second query
SecondQueryHistory == <<UserMessage(GeneralQuery), AssistantMessage(AnswerOnTopic)>>

Histories ==
    { <<>>,
      SecondQueryHistory,
      <<UserMessage(<<"Hallo">>), AssistantMessage(<<"hallo", "wie", "kann", "ich", "helfen">>)>>,
      <<UserMessage(ReasoningQuery), AssistantMessage(AnswerOffTopic),
        UserMessage(GeneralQuery), AssistantMessage(AnswerOnTopic)>> }

DefaultClaude == "claude-sonnet-4-20250514"

PreferredModels == {DefaultClaude, "o3", "mistral-7b"}

ChatRequests ==
    [message : Queries, conversation_history : Histories, model : PreferredModels,
     stream : BOOLEAN, debug : BOOLEAN]

\* the requests of the interleaved runs: a first and a second query, one model, one response shape
InterleavedRequests ==
    [message : {GeneralQuery}, conversation_history : {<<>>, SecondQueryHistory},
     model : {DefaultClaude},
     stream : {FALSE}, debug : {FALSE}]

Chunk(content, chunk_type) == [content |-> content, chunk_type |-> chunk_type]

ChunkA == Chunk(<<"docker", "compose", "startet", "container">>, "detail")
ChunkB == Chunk(<<"yaml", "beschreibt", "services">>, "detail")
ChunkC == Chunk(<<"max", "zeigt", "docker">>, "detail")

\* an awaited call that raised
Raised == [ok |-> FALSE]
Returned(value) == [ok |-> TRUE, value |-> value]

\* what the storage may hold for a query
FuzzyDocLists == {<<>>, <<[title |-> <<"docker", "compose">>, relevance_score |-> 80]>>}
RoutedChunkLists == {<<>>, <<ChunkC>>}
FuzzyChunkLists == {<<>>, <<ChunkA, ChunkB>>}
HybridTop10 == {Raised, Returned(<<>>), Returned(<<ChunkA, ChunkB>>)}
HybridTop5 == {Raised, Returned(<<>>), Returned(<<ChunkB, ChunkC>>)}

\* the texts the quality judge may answer with
ScoreTexts == {"0.0", "0.69", "0.70", "1.0", "gut"}

(***************************************************************************)
(* FuzzySearchEngine and SmartQueryRouter, as far as the pipeline sees     *)
(* them.  A substring test of the code is a test on the words of the text. *)
(***************************************************************************)
Words(text) == Range(LowerText(text))

\* the phrase first second occurs in the text
HasPhrase(text, first, second) ==
    \E i \in 1..(Len(text) - 1) : Lower(text[i]) = first /\ Lower(text[i + 1]) = second

fuzzy_stopwords ==
    {"das", "der", "die", "ein", "eine", "gibt", "es", "doch",
     "was", "war", "nochmal", "mal", "mit", "über", "zu", "von"}

SearchTermMinLen == 2

\* the words kept as terms, and the capitalised words in lower case
_extract_search_terms(query) ==
    {w \in Words(query) : w \notin fuzzy_stopwords /\ Len(w) > SearchTermMinLen}
        \cup {Lower(w) : w \in {v \in Range(query) : Lower(v) # v}}

\* fuzzy_search_documents: the connection is opened first, no terms give no documents
fuzzy_search_documents(query) ==
    {Raised} \cup
    (IF _extract_search_terms(query) = {} THEN {Returned(<<>>)}
     ELSE {Returned(docs) : docs \in FuzzyDocLists})

\* a word of the text at position i is followed by one of the words, which is itself followed
FollowedBy(text, i, words) ==
    \E j \in (i + 1)..(Len(text) - 1) : Lower(text[j]) \in words

MatchesDocPattern(query) ==
    \E i \in 1..Len(query) :
        \/ Lower(query[i]) = "artikel" /\ i < Len(query)
        \/ Lower(query[i]) = "gespräch" /\ FollowedBy(query, i, {"mit", "von"})
        \/ Lower(query[i]) = "transkript" /\ FollowedBy(query, i, {"von", "über"})

attribution_verbs == {"meinte", "erwähnte", "sagte"}

HasAttribution(query) ==
    \/ HasPhrase(query, "hat", "gesagt")
    \/ Words(query) \cap attribution_verbs # {}

temporal_phrases ==
    {<<"heute">>, <<"gestern">>, <<"vorgestern">>, <<"letzte", "woche">>,
     <<"letzten", "monat">>, <<"neulich">>}

HasTemporal(query) ==
    \E ph \in temporal_phrases :
        IF Len(ph) = 1 THEN ph[1] \in Words(query) ELSE HasPhrase(query, ph[1], ph[2])

\* the query_type of analyze_query's intent
query_type(query) ==
    IF "video" \in Words(query) THEN "document_ref"
    ELSE IF MatchesDocPattern(query) THEN "document_ref"
    ELSE IF HasAttribution(query) THEN "speaker_ref"
    ELSE IF HasTemporal(query) THEN "temporal"
    ELSE "general"

\* the speaker slot is set when a word precedes hat, meinte, erwähnte or sagte
HasSpeaker(query) ==
    \E i \in 1..(Len(query) - 1) :
        Lower(query[i + 1]) \in (attribution_verbs \cup {"hat"})

RoutingResult(strategy, chunks) == [strategy |-> strategy, chunks |-> chunks]

\* route_query: the connection is opened, then the search of the intent's type runs
route_query(query) ==
    LET strategy == query_type(query)
    IN  {Raised} \cup
        (IF strategy = "general" THEN {Returned(RoutingResult("general", <<>>))}
         ELSE IF strategy = "speaker_ref" /\ ~HasSpeaker(query) THEN {}
         ELSE {Returned(RoutingResult(strategy, chunks)) : chunks \in RoutedChunkLists})

(***************************************************************************)
(* Model selection and generation.                                         *)
(***************************************************************************)
reasoning_keywords ==
    {"analysiere", "analyze", "erkläre", "explain", "warum", "why",
     "strategie", "strategy", "vergleiche", "compare", "bewerte", "evaluate"}

LargeContextTokens == 50000

RECURSIVE JoinedLen(_)
\* len("\n\n".join(contents))
JoinedLen(chunks) ==
    IF chunks = <<>> THEN 0
    ELSE IF Len(chunks) = 1 THEN CharLen(chunks[1].content)
    ELSE CharLen(chunks[1].content) + 2 + JoinedLen(Tail(chunks))

select_optimal_model(query, context_tokens, preferred_model) ==
    IF Words(query) \cap reasoning_keywords # {} THEN "o3"
    ELSE IF context_tokens > LargeContextTokens THEN "gpt-4o"
    ELSE IF preferred_model # "" THEN preferred_model
    ELSE DefaultClaude

claude_models == {"claude-sonnet-4-20250514", "claude-opus-4-20250514", "claude-3-sonnet-20240229"}

openai_models ==
    {"gpt-4o", "gpt-4.1", "gpt-4.1-mini", "gpt-4.1-nano", "o3", "o3-pro", "o3-mini",
     "o1-preview", "o1-mini", "gpt-4-turbo", "gpt-4"}

\* model.startswith("claude") / startswith("gpt") or startswith("o"), on the known names
StartsWithClaude(model) == model \in claude_models
StartsWithGptOrO(model) == model \in openai_models

claude_model_map(model) == IF model \in claude_models THEN model ELSE DefaultClaude

openai_model_map(model) ==
    IF model = "o3" THEN "o3-2025-04-16"
    ELSE IF model \in openai_models THEN model
    ELSE "gpt-4o"

\* "o3" in actual_model.lower()
NamesO3(actual_model) == actual_model \in {"o3-2025-04-16", "o3-pro", "o3-mini"}

\* the dict a generate_* function returns; completion_model is the model whose call answered
Generated(response, model_used, completion_model) ==
    [response |-> response, model_used |-> model_used, completion_model |-> completion_model]

generate_claude_response(model) ==
    LET actual_model == claude_model_map(model)
    IN  {Raised} \cup
        {Returned(Generated(a, actual_model, actual_model)) : a \in Answers}

generate_openai_response(model) ==
    LET actual_model == openai_model_map(model)
    IN  {Raised} \cup
        {Returned(Generated(a, actual_model, actual_model)) : a \in Answers} \cup
        (IF NamesO3(actual_model)
         THEN {Returned(Generated(a, actual_model, "gpt-4o")) : a \in Answers}
         ELSE {})

route_to_model(message, context_chunks, preferred_model) ==
    LET context_tokens == JoinedLen(context_chunks) \div 4
        selected_model == select_optimal_model(message, context_tokens, preferred_model)
    IN  IF StartsWithClaude(selected_model) THEN generate_claude_response(selected_model)
        ELSE IF StartsWithGptOrO(selected_model) THEN generate_openai_response(selected_model)
        ELSE {Raised}

generate_with_model_knowledge(query, model) ==
    LET selected_model ==
            IF HasPhrase(query, "was", "ist") \/ "erkläre" \in Words(query)
            THEN model ELSE "o3"
    IN  IF StartsWithClaude(selected_model) THEN generate_claude_response(selected_model)
        ELSE generate_openai_response(selected_model)

(***************************************************************************)
(* Quality check.                                                          *)
(***************************************************************************)
\* float(score_text), in hundredths; a text that is no number raises
float(score_text) ==
    CASE score_text = "0.0" -> Returned(0)
      [] score_text = "0.69" -> Returned(69)
      [] score_text = "0.70" -> Returned(70)
      [] score_text = "1.0" -> Returned(100)
      [] OTHER -> Raised

QualityDefault == 80

\* the quality check with a reply that is no number scored as zero
check_answer_quality_unparsed_zero(reply) ==
    IF reply.ok THEN (IF float(reply.value).ok THEN float(reply.value).value ELSE 0)
    ELSE QualityDefault

\* the judge's reply is Raised or Returned(score_text)
check_answer_quality(reply) ==
    IF reply.ok /\ float(reply.value).ok THEN float(reply.value).value
    ELSE QualityDefault

JudgeReplies == {Raised} \cup {Returned(t) : t \in ScoreTexts}

QualityThreshold == 70

\* the gate with the threshold itself on the fallback side
NeedsFallbackInclusive(score) == score <= QualityThreshold

\* if quality_score < 0.7
NeedsFallback(score) == score < QualityThreshold

(***************************************************************************)
(* intelligent_chat_pipeline, one action per await.  pc names the call the *)
(* coroutine is suspended at; the code between two awaits runs in one step.*)
(***************************************************************************)
HTTPException(status_code) == [kind |-> "HTTPException", status_code |-> status_code]

InternalError == 500

StreamingResponse(content, model_used) ==
    [kind |-> "StreamingResponse", response |-> content, model_used |-> model_used]

ChatResponse(response, model_used, debug_info) ==
    [kind |-> "ChatResponse", response |-> response, model_used |-> model_used,
     debug_info |-> debug_info]

\* chat(): an exception of the pipeline becomes HTTPException(500)
Raise(s) ==
    /\ pc' = [pc EXCEPT ![s] = "done"]
    /\ outcome' = [outcome EXCEPT ![s] = HTTPException(InternalError)]

\* the pipeline goes on to await the named call
Await(s, name) ==
    /\ pc' = [pc EXCEPT ![s] = name]
    /\ calls' = [calls EXCEPT ![s] = @ \cup {name}]

RECURSIVE Deduplicate(_, _)
\* the chunks whose content was not seen before, in order
Deduplicate(chunks, seen) ==
    IF chunks = <<>> THEN <<>>
    ELSE IF Head(chunks).content \in seen THEN Deduplicate(Tail(chunks), seen)
    ELSE <<Head(chunks)>> \o Deduplicate(Tail(chunks), seen \cup {Head(chunks).content})

\* isinstance(result, list): a raised search contributes nothing
ResultList(result) == IF result.ok THEN result.value ELSE <<>>

\* the merge of a gather that gives up when one search raised
MergeResultsAllOrNothing(results) ==
    IF results[1].ok /\ results[2].ok
    THEN Deduplicate(results[1].value \o results[2].value, {})
    ELSE <<>>

MergeResults(results) ==
    Deduplicate(ResultList(results[1]) \o ResultList(results[2]), {})

ContextLimit == 10

TopChunks(chunks) == SubSeq(chunks, 1, IF Len(chunks) < ContextLimit THEN Len(chunks) ELSE ContextLimit)

\* step 4 entered whatever the context
AfterChunksAlways(chunks) == "find_cross_context_insights"

\* step 4 runs only for a non-empty context
AfterChunks(chunks) ==
    IF chunks # <<>> THEN "find_cross_context_insights" ELSE "route_to_model"

\* chat() takes a request; the pipeline sets current_intent and awaits the fuzzy search
chat(s, requests) ==
    /\ pc[s] = "idle"
    /\ \E req \in requests :
          /\ request' = [request EXCEPT ![s] = req]
          /\ current_intent' = extract_intent(req.conversation_history)
    /\ pc' = [pc EXCEPT ![s] = "fuzzy_search_documents"]
    /\ calls' = [calls EXCEPT ![s] = {"fuzzy_search_documents"}]
    /\ UNCHANGED <<unit_vars, ingest_vars, fuzzy_docs, routing_result, search_results, unique_chunks,
                   initial_response, judge_reply, quality_score, should_remind,
                   fallback_response, outcome>>

await_fuzzy_search_documents(s) ==
    /\ pc[s] = "fuzzy_search_documents"
    /\ \E r \in fuzzy_search_documents(request[s].message) :
          IF r.ok
          THEN /\ fuzzy_docs' = [fuzzy_docs EXCEPT ![s] = r.value]
               /\ Await(s, "route_query")
               /\ UNCHANGED outcome
          ELSE /\ Raise(s)
               /\ UNCHANGED <<fuzzy_docs, calls>>
    /\ UNCHANGED <<current_intent, unit_vars, ingest_vars, request, routing_result, search_results,
                   unique_chunks, initial_response, judge_reply, quality_score,
                   should_remind, fallback_response>>

\* the choice of the source with the fuzzy-matched documents preferred to the routed chunks
ChunkSourceFuzzyFirst(result, docs) ==
    IF docs # <<>> THEN "fuzzy"
    ELSE IF result.strategy = "document_ref" /\ result.chunks # <<>> THEN "routed"
    ELSE "hybrid"

\* the source of unique_chunks: the if / elif / else behind the routing
ChunkSource(result, docs) ==
    IF result.strategy = "document_ref" /\ result.chunks # <<>> THEN "routed"
    ELSE IF docs # <<>> THEN "fuzzy"
    ELSE "hybrid"

\* route_query returns; the attempt is tracked and the source of the chunks is chosen
await_route_query(s) ==
    /\ pc[s] = "route_query"
    /\ \E r \in route_query(request[s].message) :
          IF r.ok
          THEN LET result == r.value
                   found == result.chunks # <<>> \/ fuzzy_docs[s] # <<>>
               IN  /\ routing_result' = [routing_result EXCEPT ![s] = result]
                   /\ current_intent' =
                          track_search_attempt(current_intent, request[s].message,
                                               found, result.strategy)
                   /\ IF ChunkSource(result, fuzzy_docs[s]) = "routed"
                      THEN /\ unique_chunks' = [unique_chunks EXCEPT ![s] = result.chunks]
                           /\ Await(s, AfterChunks(result.chunks))
                      ELSE IF ChunkSource(result, fuzzy_docs[s]) = "fuzzy"
                      THEN /\ Await(s, "fetch_fuzzy_chunks")
                           /\ UNCHANGED unique_chunks
                      ELSE /\ Await(s, "hybrid_search")
                           /\ UNCHANGED unique_chunks
                   /\ UNCHANGED outcome
          ELSE /\ Raise(s)
               /\ UNCHANGED <<current_intent, routing_result, unique_chunks, calls>>
    /\ UNCHANGED <<unit_vars, ingest_vars, request, fuzzy_docs, search_results, initial_response,
                   judge_reply, quality_score, should_remind, fallback_response>>

\* the chunks of the fuzzy-matched documents are fetched
await_fetch_fuzzy_chunks(s) ==
    /\ pc[s] = "fetch_fuzzy_chunks"
    /\ \E r \in {Raised} \cup {Returned(chunks) : chunks \in FuzzyChunkLists} :
          IF r.ok
          THEN /\ unique_chunks' = [unique_chunks EXCEPT ![s] = r.value]
               /\ Await(s, AfterChunks(r.value))
               /\ UNCHANGED outcome
          ELSE /\ Raise(s)
               /\ UNCHANGED <<unique_chunks, calls>>
    /\ UNCHANGED <<current_intent, unit_vars, ingest_vars, request, fuzzy_docs, routing_result,
                   search_results, initial_response, judge_reply, quality_score,
                   should_remind, fallback_response>>

\* asyncio.gather(*search_tasks, return_exceptions=True) returns
await_hybrid_search(s) ==
    /\ pc[s] = "hybrid_search"
    /\ \E r1 \in HybridTop10, r2 \in HybridTop5 :
          LET chunks == MergeResults(<<r1, r2>>)
          IN  /\ search_results' = [search_results EXCEPT ![s] = <<r1, r2>>]
              /\ unique_chunks' = [unique_chunks EXCEPT ![s] = chunks]
              /\ Await(s, AfterChunks(chunks))
    /\ UNCHANGED <<current_intent, unit_vars, ingest_vars, request, fuzzy_docs, routing_result,
                   initial_response, judge_reply, quality_score, should_remind,
                   fallback_response, outcome>>

CrossContextInsights == {Raised, Returned(<<>>), Returned(<<"Docker", "verbindet", "beide">>)}

\* find_cross_context_insights returns or raises; insights go in front of the chunks
await_find_cross_context_insights(s) ==
    /\ pc[s] = "find_cross_context_insights"
    /\ \E r \in CrossContextInsights :
          unique_chunks' =
              [unique_chunks EXCEPT ![s] =
                  IF r.ok /\ r.value # <<>>
                  THEN <<Chunk(<<"Cross-Context", "Insights:">> \o r.value, "cross_context")>> \o @
                  ELSE @]
    /\ Await(s, "route_to_model")
    /\ search_results' = [search_results EXCEPT ![s] = <<>>]
    /\ UNCHANGED <<current_intent, unit_vars, ingest_vars, request, fuzzy_docs, routing_result,
                   initial_response, judge_reply, quality_score,
                   should_remind, fallback_response, outcome>>

await_route_to_model(s) ==
    /\ pc[s] = "route_to_model"
    /\ \E r \in route_to_model(request[s].message, TopChunks(unique_chunks[s]),
                               request[s].model) :
          IF r.ok
          THEN /\ initial_response' = [initial_response EXCEPT ![s] = r.value]
               /\ Await(s, "check_answer_quality")
               /\ UNCHANGED outcome
          ELSE /\ Raise(s)
               /\ UNCHANGED <<initial_response, calls>>
    /\ search_results' = [search_results EXCEPT ![s] = <<>>]
    /\ UNCHANGED <<current_intent, unit_vars, ingest_vars, request, fuzzy_docs, routing_result,
                   unique_chunks, judge_reply, quality_score,
                   should_remind, fallback_response>>

\* final_response, with the reminder when should_remind
FinalResponse(generated, remind) ==
    generated.response \o (IF remind THEN format_reminder(current_intent) ELSE <<>>)

DebugInfo(s, score) ==
    [routing_strategy |-> routing_result[s].strategy,
     chunks_found |-> Len(unique_chunks[s]),
     quality_score |-> score,
     used_fallback |-> FALSE,
     fuzzy_matches |-> Len(fuzzy_docs[s]),
     original_intent |->
         IF current_intent # None THEN current_intent.original_question ELSE None]

\* the quality score arrives; should_remind is computed; a good answer is returned
await_check_answer_quality(s) ==
    /\ pc[s] = "check_answer_quality"
    /\ \E reply \in JudgeReplies :
          LET score == check_answer_quality(reply)
              remind == should_remind_original_question(current_intent,
                                                        initial_response[s].response)
          IN  /\ judge_reply' = [judge_reply EXCEPT ![s] = reply]
              /\ quality_score' = [quality_score EXCEPT ![s] = score]
              /\ should_remind' = [should_remind EXCEPT ![s] = remind]
              /\ IF NeedsFallback(score)
                 THEN /\ Await(s, "generate_with_model_knowledge")
                      /\ UNCHANGED outcome
                 ELSE /\ pc' = [pc EXCEPT ![s] = "done"]
                      /\ outcome' = [outcome EXCEPT ![s] =
                            IF request[s].stream
                            THEN StreamingResponse(FinalResponse(initial_response[s], remind),
                                                   initial_response[s].model_used)
                            ELSE ChatResponse(FinalResponse(initial_response[s], remind),
                                              initial_response[s].model_used,
                                              IF request[s].debug THEN DebugInfo(s, score)
                                              ELSE None)]
                      /\ UNCHANGED calls
    /\ UNCHANGED <<current_intent, unit_vars, ingest_vars, request, fuzzy_docs, routing_result,
                   search_results, unique_chunks, initial_response, fallback_response>>

\* the fallback answer arrives and is returned
await_generate_with_model_knowledge(s) ==
    /\ pc[s] = "generate_with_model_knowledge"
    /\ \E r \in generate_with_model_knowledge(request[s].message, request[s].model) :
          IF r.ok
          THEN /\ fallback_response' = [fallback_response EXCEPT ![s] = r.value]
               /\ pc' = [pc EXCEPT ![s] = "done"]
               /\ outcome' = [outcome EXCEPT ![s] =
                     IF request[s].stream
                     THEN StreamingResponse(FinalResponse(r.value, should_remind[s]),
                                            r.value.model_used)
                     ELSE ChatResponse(FinalResponse(r.value, should_remind[s]),
                                       r.value.model_used, None)]
          ELSE /\ Raise(s)
               /\ UNCHANGED fallback_response
    /\ UNCHANGED <<current_intent, unit_vars, ingest_vars, request, fuzzy_docs, routing_result,
                   search_results, unique_chunks, initial_response, judge_reply,
                   quality_score, should_remind, calls>>

\* the caller has its answer; the coroutine's locals are gone
deliver(s) ==
    /\ pc[s] = "done"
    /\ pc' = [pc EXCEPT ![s] = "idle"]
    /\ request' = [request EXCEPT ![s] = None]
    /\ fuzzy_docs' = [fuzzy_docs EXCEPT ![s] = <<>>]
    /\ routing_result' = [routing_result EXCEPT ![s] = None]
    /\ search_results' = [search_results EXCEPT ![s] = <<>>]
    /\ unique_chunks' = [unique_chunks EXCEPT ![s] = <<>>]
    /\ initial_response' = [initial_response EXCEPT ![s] = None]
    /\ judge_reply' = [judge_reply EXCEPT ![s] = None]
    /\ quality_score' = [quality_score EXCEPT ![s] = None]
    /\ should_remind' = [should_remind EXCEPT ![s] = FALSE]
    /\ fallback_response' = [fallback_response EXCEPT ![s] = None]
    /\ calls' = [calls EXCEPT ![s] = {}]
    /\ outcome' = [outcome EXCEPT ![s] = None]
    /\ UNCHANGED <<current_intent, unit_vars, ingest_vars>>

(***************************************************************************)
(* Specifications.                                                         *)
(***************************************************************************)
\* nothing in flight, nothing stored
InitIdle ==
    /\ current_intent = None
    /\ pc = [s \in Slots |-> "idle"]
    /\ request = [s \in Slots |-> None]
    /\ fuzzy_docs = [s \in Slots |-> <<>>]
    /\ routing_result = [s \in Slots |-> None]
    /\ search_results = [s \in Slots |-> <<>>]
    /\ unique_chunks = [s \in Slots |-> <<>>]
    /\ initial_response = [s \in Slots |-> None]
    /\ judge_reply = [s \in Slots |-> None]
    /\ quality_score = [s \in Slots |-> None]
    /\ should_remind = [s \in Slots |-> FALSE]
    /\ fallback_response = [s \in Slots |-> None]
    /\ calls = [s \in Slots |-> {}]
    /\ outcome = [s \in Slots |-> None]
    /\ tables = [documents |-> {}, chunks |-> {}, colbert_tokens |-> {}]
    /\ ingest = [pc |-> "idle"]

Init ==
    /\ InitIdle
    /\ call = [op |-> "none"]
    /\ ret = FALSE

\* no other request is in flight
Alone(s) == \A t \in Slots \ {s} : pc[t] = "idle"

Step(s) ==
    \/ await_fuzzy_search_documents(s)
    \/ await_route_query(s)
    \/ await_fetch_fuzzy_chunks(s)
    \/ await_hybrid_search(s)
    \/ await_find_cross_context_insights(s)
    \/ await_route_to_model(s)
    \/ await_check_answer_quality(s)
    \/ await_generate_with_model_knowledge(s)
    \/ deliver(s)

\* a request is taken while no other is in flight
chat_serialized(s) == Alone(s) /\ chat(s, ChatRequests)

\* a request is taken while another may be in flight
chat_interleaved(s) == chat(s, InterleavedRequests)

\* requests served one after the other
Next ==
    \E s \in Slots :
        \/ chat_serialized(s)
        \/ Step(s)

Spec == Init /\ [][Next]_vars

\* requests of different sessions in flight together, interleaved at the awaits
NextInterleaved ==
    \E s \in Slots :
        \/ chat_interleaved(s)
        \/ Step(s)

SpecInterleaved == Init /\ [][NextInterleaved]_vars

\* a ConversationMemory of its own, called method by method
NextMemory ==
    \/ MemExtractIntent
    \/ MemTrackSearchAttempt
    \/ MemShouldRemind

SpecMemory == Init /\ [][NextMemory]_vars

(***************************************************************************)
(* Properties.                                                             *)
(***************************************************************************)
\* the caller of slot s got an answer, not an error
Answered(s) == pc[s] = "done" /\ outcome[s].kind # "HTTPException"

\* the quality score of slot s has arrived
QualityKnown(s) ==
    \/ pc[s] = "generate_with_model_knowledge"
    \/ pc[s] = "done" /\ "check_answer_quality" \in calls[s]

UsedFallback(s) == "generate_with_model_knowledge" \in calls[s]

IsPrefix(a, b) == Len(a) <= Len(b) /\ SubSeq(b, 1, Len(a)) = a

HasReminder(text) == "---" \in Range(text)

\* C1: the knowledge fallback is called exactly when the quality score is below 0.7,
\* and the answer returned is then the fallback's, otherwise the candidate's
C1_QualityGate ==
    \A s \in Slots :
        QualityKnown(s) =>
            /\ UsedFallback(s) <=> quality_score[s] < 70
            /\ Answered(s) =>
                  IF quality_score[s] < 70
                  THEN IsPrefix(fallback_response[s].response, outcome[s].response)
                  ELSE IsPrefix(initial_response[s].response, outcome[s].response)

\* C1: a score of 0.69 has sent the request through the fallback, whose answer was returned
C1_Witness ==
    \E s \in Slots :
        /\ Answered(s)
        /\ quality_score[s] = 69
        /\ UsedFallback(s)
        /\ fallback_response[s].response # initial_response[s].response
        /\ IsPrefix(fallback_response[s].response, outcome[s].response)

\* C2: should_remind_original_question is true exactly for two or more attempts and an
\* overlap below 30% of the keyword count; never for fewer than two attempts, never at
\* exactly 30%, never when every keyword of the question is in the response (100%)
C2_ReminderRule ==
    (call.op = "should_remind_original_question" /\ current_intent # None) =>
        LET attempts == Len(current_intent.search_attempts)
            original == _extract_keywords(current_intent.original_question)
            response == _extract_keywords(call.current_response)
            overlap == Cardinality(Range(original) \cap Range(response))
        IN  /\ ret = (attempts >= 2 /\ 10 * overlap < 3 * Len(original))
            /\ attempts < 2 => ret = FALSE
            /\ 10 * overlap = 3 * Len(original) => ret = FALSE
            /\ (Range(original) # {} /\ Range(original) \subseteq Range(response))
                  => ret = FALSE

\* the question whose keywords the answer is held against
OriginalQuestionOf(s) == extract_intent(request[s].conversation_history).original_question

SharesFewKeywords(answer, question) ==
    LET original == _extract_keywords(question)
        response == _extract_keywords(answer)
    IN  10 * Cardinality(Range(original) \cap Range(response)) < 3 * Len(original)

\* C3: the answer to a session's second or later query, when it shares fewer than 30%
\* of the original question's keywords, carries the reminder
C3_ReminderOnLaterQuery ==
    \A s \in Slots :
        ( /\ Answered(s)
          /\ Len(request[s].conversation_history) >= 2
          /\ SharesFewKeywords(initial_response[s].response, OriginalQuestionOf(s)) )
        => HasReminder(outcome[s].response)

\* C4: once the search stage of a request has run, the intent of its session holds
\* exactly one attempt, that of this request
C4_AttemptLogged ==
    \A s \in Slots :
        routing_result[s] # None =>
            /\ current_intent # None
            /\ current_intent.search_attempts =
                  <<SearchAttempt(request[s].message,
                                  routing_result[s].chunks # <<>> \/ fuzzy_docs[s] # <<>>,
                                  routing_result[s].strategy)>>

\* the intent a request works on when no other request is in flight
IntentAlone(s) ==
    track_search_attempt(extract_intent(request[s].conversation_history),
                         request[s].message,
                         routing_result[s].chunks # <<>> \/ fuzzy_docs[s] # <<>>,
                         routing_result[s].strategy)

RemindAlone(s) ==
    should_remind_original_question(IntentAlone(s), initial_response[s].response)

\* C5: with requests interleaved, the reminder decision of each and the answer it
\* returns are those of the request run alone
C5_Isolation ==
    \A s \in Slots :
        /\ QualityKnown(s) => should_remind[s] = RemindAlone(s)
        /\ Answered(s) =>
              outcome[s].response =
                  (IF UsedFallback(s) THEN fallback_response[s] ELSE initial_response[s]).response
                      \o (IF RemindAlone(s) THEN format_reminder(IntentAlone(s)) ELSE <<>>)

\* C6: a request with a query whose fuzzy search or routed search raised is still answered
C6_StorageFailureTolerated ==
    \A s \in Slots :
        (pc[s] = "done" /\ request[s].message # EmptyQuery
            /\ calls[s] \subseteq {"fuzzy_search_documents", "route_query"})
        => outcome[s].kind # "HTTPException"

\* C7: after the hybrid fan-out a search that raised counts as empty, the chunks of the
\* other are the context, and the pipeline goes on
C7_PartialHybrid ==
    \A s \in Slots :
        search_results[s] # <<>> =>
            LET r1 == search_results[s][1]
                r2 == search_results[s][2]
            IN  /\ (~r1.ok /\ r2.ok) => unique_chunks[s] = r2.value
                /\ (r1.ok /\ ~r2.ok) => unique_chunks[s] = r1.value
                /\ (~r1.ok /\ ~r2.ok) => unique_chunks[s] = <<>>
                /\ pc[s] \in {"find_cross_context_insights", "route_to_model"}

\* C7: the first search raised and the chunks of the second are the context
C7_Witness ==
    \E s \in Slots :
        /\ search_results[s] # <<>>
        /\ ~search_results[s][1].ok
        /\ search_results[s][2].ok
        /\ search_results[s][2].value # <<>>
        /\ unique_chunks[s] = search_results[s][2].value
        /\ pc[s] = "find_cross_context_insights"

NotANumber(reply) == ~reply.ok \/ reply.value \notin {"0.0", "0.69", "0.70", "1.0"}

\* C8: a judge that failed or answered no number gives the score 0.8, and the candidate
\* answer is returned without the fallback
C8_JudgeFailureDefault ==
    \A s \in Slots :
        (QualityKnown(s) /\ NotANumber(judge_reply[s])) =>
            /\ quality_score[s] = 80
            /\ ~UsedFallback(s)
            /\ Answered(s)
            /\ IsPrefix(initial_response[s].response, outcome[s].response)

\* C8: the judge call raised and the candidate answer was returned
C8_Witness ==
    \E s \in Slots :
        /\ Answered(s)
        /\ "check_answer_quality" \in calls[s]
        /\ judge_reply[s] = Raised
        /\ quality_score[s] = 80
        /\ outcome[s].response = initial_response[s].response

\* routing, fuzzy search and both hybrid searches gave no chunk
NoChunksAnywhere(s) ==
    /\ "hybrid_search" \in calls[s]
    /\ pc[s] # "hybrid_search"
    /\ routing_result[s].chunks = <<>>
    /\ fuzzy_docs[s] = <<>>
    /\ unique_chunks[s] = <<>>

\* C9 as claimed: with no chunk anywhere the answer comes from the knowledge fallback
C9_EmptyMeansFallback ==
    \A s \in Slots :
        (NoChunksAnywhere(s) /\ Answered(s)) => UsedFallback(s)

\* C9: with no chunk anywhere the pipeline skips the cross-context step, asks for a
\* candidate answer, and the answer comes from the knowledge fallback exactly when the
\* quality score is below 0.7
C9_EmptyStillGated ==
    \A s \in Slots :
        NoChunksAnywhere(s) =>
            /\ "find_cross_context_insights" \notin calls[s]
            /\ "route_to_model" \in calls[s]
            /\ Answered(s) =>
                  /\ UsedFallback(s) <=> quality_score[s] < 70
                  /\ ~UsedFallback(s) =>
                        IsPrefix(initial_response[s].response, outcome[s].response)

\* C9: no chunk anywhere, a score of 0.7 or more, and the candidate answer was returned
C9_Witness ==
    \E s \in Slots :
        /\ NoChunksAnywhere(s)
        /\ Answered(s)
        /\ quality_score[s] >= 70
        /\ ~UsedFallback(s)
        /\ outcome[s].response = initial_response[s].response

\* C10: a request with the empty query is rejected and no call is made for it
C10_EmptyQueryRejected ==
    \A s \in Slots :
        (pc[s] # "idle" /\ request[s].message = EmptyQuery) =>
            /\ calls[s] = {}
            /\ pc[s] = "done"
            /\ outcome[s].kind = "HTTPException"

\* the model route_to_model selected for the request of slot s
SelectedModel(s) ==
    select_optimal_model(request[s].message,
                         JoinedLen(TopChunks(unique_chunks[s])) \div 4,
                         request[s].model)

\* C11: a request whose selected model no provider branch recognises is still answered
C11_UnknownModelAnswered ==
    \A s \in Slots :
        ( /\ pc[s] = "done"
          /\ "route_to_model" \in calls[s]
          /\ ~StartsWithClaude(SelectedModel(s))
          /\ ~StartsWithGptOrO(SelectedModel(s)) )
        => outcome[s].kind # "HTTPException"

\* the generation whose text is returned to the caller of slot s
ReturnedGeneration(s) ==
    IF UsedFallback(s) THEN fallback_response[s] ELSE initial_response[s]

\* C12: model_used of an answer names the model whose completion call produced its text
C12_ModelUsedIsCompletionModel ==
    \A s \in Slots :
        Answered(s) => outcome[s].model_used = ReturnedGeneration(s).completion_model

\* C13: a non-streaming answer to a request with debug carries debug info with the
\* routing strategy, the chunk count and the quality score, on the fallback path too
C13_DebugInfoOnEveryPath ==
    \A s \in Slots :
        (Answered(s) /\ ~request[s].stream /\ request[s].debug) =>
            /\ outcome[s].debug_info # None
            /\ outcome[s].debug_info.routing_strategy = routing_result[s].strategy
            /\ outcome[s].debug_info.chunks_found = Len(unique_chunks[s])
            /\ outcome[s].debug_info.quality_score = quality_score[s]

(***************************************************************************)
(* The chunker (SmartChunker, backend/core/chunking.py).  A text is here a *)
(* sequence of pieces, the parts that " ".join puts together; a piece is a *)
(* sentence or a segment: its wording and its length in characters.  A     *)
(* list of timestamps or of speakers that is None is written <<>>: the     *)
(* code tests both by truth value only.  A speaker label is a string, the  *)
(* label None is the string NoSpeaker.  A float is a fraction.             *)
(***************************************************************************)
\* most sentences of a transcript given to _create_detail_chunks
MaxSentences == 4
\* most sentences of a transcript given to chunk_transcript
MaxTranscript == 2
\* most timestamps given to chunk_transcript
MaxTimestamps == 2
\* most segments given to _chunk_by_speakers
MaxSegments == 3
\* most segments given to chunk_transcript
MaxTurns == 1

target_chunk_tokens == 750

max_chunk_tokens == 1000

overlap_tokens == 100

segment_duration == 600

TopicParts == 6

SummaryChars == 1000

NoSpeaker == "None"

Piece(text, chars) == [text |-> text, chars |-> chars]

Fraction(num, den) == [num |-> num, den |-> den]

RECURSIVE JoinedChars(_)
\* len(" ".join(parts))
JoinedChars(parts) ==
    IF parts = <<>> THEN 0
    ELSE IF Len(parts) = 1 THEN parts[1].chars
    ELSE parts[1].chars + 1 + JoinedChars(Tail(parts))

\* len(text) // 4
_estimate_tokens(text) == JoinedChars(text) \div 4

RECURSIVE SumTokens(_)
\* sum(self._estimate_tokens(s) for s in current_chunk)
SumTokens(sentences) ==
    IF sentences = <<>> THEN 0
    ELSE _estimate_tokens(<<Head(sentences)>>) + SumTokens(Tail(sentences))

\* text[start:end]
Slice(start, end) == <<[text |-> "[slice]", chars |-> end - start, start |-> start]>>

\* the Chunk dataclass, importance_score at its default 0.5
NewChunk(content, chunk_type, chunk_index, start_time, end_time, speaker, tokens) ==
    [content |-> content, chunk_type |-> chunk_type, chunk_index |-> chunk_index,
     start_time |-> start_time, end_time |-> end_time, speaker |-> speaker,
     tokens |-> tokens, importance_score |-> Fraction(1, 2)]

\* the sentences of a text: none of them is empty
_split_into_sentences(text) == SelectSeq(text, LAMBDA s : s.chars > 0)

\* "[Summary to be generated] " + text[:1000] + "..."
_generate_summary_placeholder(text) ==
    LET taken == IF JoinedChars(text) < SummaryChars THEN JoinedChars(text) ELSE SummaryChars
    IN  <<Piece("[Summary to be generated]", 26 + taken + 3)>>

_create_topic_chunks_by_size(text) ==
    LET text_length == JoinedChars(text)
        chunk_size == text_length \div TopicParts
    IN  [k \in 1..TopicParts |->
            LET i == k - 1
                start == i * chunk_size
                end == IF i < TopicParts - 1 THEN start + chunk_size ELSE text_length
            IN  NewChunk(Slice(start, end), "topic", i + 1, None, None, NoSpeaker,
                         _estimate_tokens(Slice(start, end)))]

RECURSIVE TopicLoop(_, _, _, _, _, _)
\* the loop of _create_topic_chunks_with_timestamps and its last segment
TopicLoop(timestamps, i, chunks, current_segment_start, current_segment_texts, chunk_index) ==
    IF i > Len(timestamps)
    THEN IF current_segment_texts # <<>>
         THEN Append(chunks, NewChunk(current_segment_texts, "topic", chunk_index,
                                      current_segment_start, timestamps[Len(timestamps)][1],
                                      NoSpeaker, _estimate_tokens(current_segment_texts)))
         ELSE chunks
    ELSE LET time == timestamps[i][1]
             text == timestamps[i][2]
         IN  IF time >= current_segment_start + segment_duration
             THEN IF current_segment_texts # <<>>
                  THEN TopicLoop(timestamps, i + 1,
                                 Append(chunks,
                                        NewChunk(current_segment_texts, "topic", chunk_index,
                                                 current_segment_start, time, NoSpeaker,
                                                 _estimate_tokens(current_segment_texts))),
                                 time, <<text>>, chunk_index + 1)
                  ELSE TopicLoop(timestamps, i + 1, chunks, time, <<text>>, chunk_index)
             ELSE TopicLoop(timestamps, i + 1, chunks, current_segment_start,
                            Append(current_segment_texts, text), chunk_index)

_create_topic_chunks_with_timestamps(timestamps) == TopicLoop(timestamps, 1, <<>>, 0, <<>>, 1)

RECURSIVE OverlapFromStart(_, _, _, _)
OverlapFromStart(sentences, i, overlap_sentences, taken_tokens) ==
    IF i > Len(sentences) THEN overlap_sentences
    ELSE LET sentence_tokens == _estimate_tokens(<<sentences[i]>>)
         IN  IF taken_tokens + sentence_tokens <= overlap_tokens
             THEN OverlapFromStart(sentences, i + 1, Append(overlap_sentences, sentences[i]),
                                   taken_tokens + sentence_tokens)
             ELSE overlap_sentences

\* the overlap taken walking the sentences forwards, not reversed
_get_overlap_sentences_from_start(sentences) == OverlapFromStart(sentences, 1, <<>>, 0)

RECURSIVE OverlapLoop(_, _, _, _)
\* for sentence in reversed(sentences): insert at the front while the budget holds
OverlapLoop(sentences, i, overlap_sentences, taken_tokens) ==
    IF i < 1 THEN overlap_sentences
    ELSE LET sentence_tokens == _estimate_tokens(<<sentences[i]>>)
         IN  IF taken_tokens + sentence_tokens <= overlap_tokens
             THEN OverlapLoop(sentences, i - 1, <<sentences[i]>> \o overlap_sentences,
                              taken_tokens + sentence_tokens)
             ELSE overlap_sentences

_get_overlap_sentences(sentences) == OverlapLoop(sentences, Len(sentences), <<>>, 0)

DetailChunk(content, chunk_index, speaker, tokens) ==
    NewChunk(content, "detail", chunk_index, None, None, speaker, tokens)

RECURSIVE DetailLoop(_, _, _, _, _)
\* the size-based loop of _create_detail_chunks and its final chunk
DetailLoop(sentences, chunks, current_chunk, current_tokens, chunk_index) ==
    IF sentences = <<>>
    THEN IF current_chunk # <<>>
         THEN Append(chunks, DetailChunk(current_chunk, chunk_index, NoSpeaker, current_tokens))
         ELSE chunks
    ELSE LET sentence == Head(sentences)
             sentence_tokens == _estimate_tokens(<<sentence>>)
             restart == _get_overlap_sentences(current_chunk) \o <<sentence>>
         IN  IF current_tokens + sentence_tokens > target_chunk_tokens
             THEN IF current_chunk # <<>>
                  THEN DetailLoop(Tail(sentences),
                                  Append(chunks, DetailChunk(current_chunk, chunk_index,
                                                             NoSpeaker, current_tokens)),
                                  restart, SumTokens(restart), chunk_index + 1)
                  ELSE DetailLoop(Tail(sentences), chunks, restart, SumTokens(restart),
                                  chunk_index)
             ELSE DetailLoop(Tail(sentences), chunks, Append(current_chunk, sentence),
                             current_tokens + sentence_tokens, chunk_index)

\* a new chunk at every segment, whoever speaks, once the maximum is passed only
NeedsNewChunkOnOverflow(speaker, current_speaker, current_tokens, text_tokens) ==
    current_tokens + text_tokens > max_chunk_tokens

\* speaker != current_speaker or current_tokens + text_tokens > self.max_chunk_tokens
NeedsNewChunk(speaker, current_speaker, current_tokens, text_tokens) ==
    speaker # current_speaker \/ current_tokens + text_tokens > max_chunk_tokens

RECURSIVE SpeakerLoop(_, _, _, _, _, _)
\* the loop of _chunk_by_speakers and its final chunk
SpeakerLoop(speakers, chunks, current_speaker, current_texts, current_tokens, chunk_index) ==
    IF speakers = <<>>
    THEN IF current_texts # <<>>
         THEN Append(chunks, DetailChunk(current_texts, chunk_index, current_speaker,
                                         current_tokens))
         ELSE chunks
    ELSE LET speaker == Head(speakers)[1]
             text == Head(speakers)[2]
             text_tokens == _estimate_tokens(<<text>>)
         IN  IF NeedsNewChunk(speaker, current_speaker, current_tokens, text_tokens)
             THEN IF current_texts # <<>>
                  THEN SpeakerLoop(Tail(speakers),
                                   Append(chunks, DetailChunk(current_texts, chunk_index,
                                                              current_speaker, current_tokens)),
                                   speaker, <<text>>, text_tokens, chunk_index + 1)
                  ELSE SpeakerLoop(Tail(speakers), chunks, speaker, <<text>>, text_tokens,
                                   chunk_index)
             ELSE SpeakerLoop(Tail(speakers), chunks, current_speaker,
                              Append(current_texts, text), current_tokens + text_tokens,
                              chunk_index)

_chunk_by_speakers(speakers, timestamps) == SpeakerLoop(speakers, <<>>, NoSpeaker, <<>>, 0, 1)

_create_detail_chunks(transcript, timestamps, speakers) ==
    IF speakers # <<>> THEN _chunk_by_speakers(speakers, timestamps)
    ELSE DetailLoop(_split_into_sentences(transcript), <<>>, <<>>, 0, 1)

importance_keywords ==
    {"wichtig", "important", "problem", "lÃ¶sung", "solution", "frage", "question"}

Abs(x) == IF x < 0 THEN -x ELSE x

\* position_score = 1.0 - abs(i - n / 2) / (n / 2); content_score 0.5 or 0.8; their mean
_calculate_importance_scores(chunks) ==
    LET n == Len(chunks)
    IN  [k \in 1..n |->
            LET i == k - 1
                chunk == chunks[k]
                content_tenths ==
                    IF \E j \in 1..Len(chunk.content) :
                           Lower(chunk.content[j].text) \in importance_keywords
                    THEN 8 ELSE 5
            IN  [chunk EXCEPT !.importance_score =
                    IF chunk.chunk_type = "summary" THEN Fraction(1, 1)
                    ELSE IF chunk.chunk_type = "topic" THEN Fraction(4, 5)
                    ELSE Fraction(10 * (n - Abs(2 * i - n)) + content_tenths * n, 20 * n)]]

chunk_transcript(transcript, timestamps, speakers) ==
    LET summary == _generate_summary_placeholder(transcript)
        summary_chunk == NewChunk(summary, "summary", 0, None, None, NoSpeaker,
                                  _estimate_tokens(summary))
        topic_chunks == IF timestamps # <<>>
                        THEN _create_topic_chunks_with_timestamps(timestamps)
                        ELSE _create_topic_chunks_by_size(transcript)
        detail_chunks == _create_detail_chunks(transcript, timestamps, speakers)
    IN  _calculate_importance_scores(<<summary_chunk>> \o topic_chunks \o detail_chunks)

\* sentences of 0, 50, 100, 400 and 800 estimated tokens
SentencePool ==
    {Piece("ja", 3), Piece("kurz", 200), Piece("wichtig", 400), Piece("lang", 1600),
     Piece("riesig", 3200)}

SeqsUpTo(S, n) == UNION {[1..m -> S] : m \in 0..n}

Transcripts(sentences) == SeqsUpTo(SentencePool, sentences)

\* segments of 50, 500 and 600 estimated tokens, two speakers
SegmentPool == {Piece("kurz", 200), Piece("mittel", 2000), Piece("lang", 2400)}

SpeakerNames == {"Anna", "Ben"}

SpeakerLists(n) == SeqsUpTo(SpeakerNames \X SegmentPool, n)

\* timestamps in seconds, in the order of the recording
TimestampLists(stamps) ==
    {ts \in SeqsUpTo({0, 300, 600, 1300} \X {Piece("kurz", 200)}, stamps) :
        \A i \in 1..(Len(ts) - 1) : ts[i][1] <= ts[i + 1][1]}

\* the calls of the chunker that are tried, none of them returned yet
ChunkingCalls(sentences, transcripts, stamps, segments, turns) ==
    {[op |-> "chunk_transcript", transcript |-> transcript, timestamps |-> timestamps,
      speakers |-> speakers, returned |-> FALSE] :
        transcript \in SeqsUpTo(SentencePool, transcripts),
        timestamps \in TimestampLists(stamps),
        speakers \in SpeakerLists(turns)}
    \cup {[op |-> "_create_detail_chunks", transcript |-> transcript, timestamps |-> <<>>,
           speakers |-> <<>>, returned |-> FALSE] : transcript \in Transcripts(sentences)}
    \cup {[op |-> "_chunk_by_speakers", transcript |-> <<>>, timestamps |-> <<>>,
           speakers |-> speakers, returned |-> FALSE] :
              speakers \in SpeakerLists(segments)}

InitChunking ==
    /\ InitIdle
    /\ call \in ChunkingCalls(MaxSentences, MaxTranscript, MaxTimestamps, MaxSegments, MaxTurns)
    /\ ret = <<>>

ChunkTranscript ==
    /\ call.op = "chunk_transcript" /\ ~call.returned
    /\ call' = [call EXCEPT !.returned = TRUE]
    /\ ret' = chunk_transcript(call.transcript, call.timestamps, call.speakers)
    /\ UNCHANGED <<current_intent, pipeline_vars, ingest_vars>>

CreateDetailChunks ==
    /\ call.op = "_create_detail_chunks" /\ ~call.returned
    /\ call' = [call EXCEPT !.returned = TRUE]
    /\ ret' = _create_detail_chunks(call.transcript, call.timestamps, call.speakers)
    /\ UNCHANGED <<current_intent, pipeline_vars, ingest_vars>>

ChunkBySpeakers ==
    /\ call.op = "_chunk_by_speakers" /\ ~call.returned
    /\ call' = [call EXCEPT !.returned = TRUE]
    /\ ret' = _chunk_by_speakers(call.speakers, call.timestamps)
    /\ UNCHANGED <<current_intent, pipeline_vars, ingest_vars>>

\* each call of the chunker returns
NextChunking ==
    \/ ChunkTranscript
    \/ CreateDetailChunks
    \/ ChunkBySpeakers

SpecChunking == InitChunking /\ [][NextChunking]_vars

\* C15: no two chunks of the list chunk_transcript returns have the same chunk_index
C15_ChunkIndexUnique ==
    (call.op = "chunk_transcript" /\ call.returned) =>
        \A i, j \in 1..Len(ret) : i # j => ret[i].chunk_index # ret[j].chunk_index

RECURSIVE Rebuilds(_, _, _)
\* the chunks from the k-th on, each without an overlap that ends the chunk before it,
\* spell out the remaining sentences
Rebuilds(chunks, k, remaining) ==
    IF k > Len(chunks) THEN remaining = <<>>
    ELSE \E o \in 0..Len(chunks[k].content) :
            LET content == chunks[k].content
                fresh == SubSeq(content, o + 1, Len(content))
            IN  /\ k = 1 => o = 0
                /\ k > 1 =>
                      LET previous == chunks[k - 1].content
                      IN  /\ o <= Len(previous)
                          /\ SubSeq(content, 1, o) =
                                SubSeq(previous, Len(previous) - o + 1, Len(previous))
                /\ IsPrefix(fresh, remaining)
                /\ Rebuilds(chunks, k + 1, SubSeq(remaining, Len(fresh) + 1, Len(remaining)))

\* C16: the detail chunks of a text without speakers, in index order, rebuild its
\* sentences: each chunk starts with a suffix of the chunk before it (the overlap) and
\* the chunks without their overlaps are all sentences once, in order
C16_DetailChunksRebuildText ==
    (call.op = "_create_detail_chunks" /\ call.returned /\ call.transcript # <<>>) =>
        /\ ret # <<>>
        /\ \A k \in 1..Len(ret) : ret[k].chunk_type = "detail" /\ ret[k].chunk_index = k
        /\ \A i \in 1..Len(call.transcript) :
              \E k \in 1..Len(ret) : call.transcript[i] \in Range(ret[k].content)
        /\ Rebuilds(ret, 1, call.transcript)

\* C16: a text was split in two chunks and the second starts with the last sentence of
\* the first
C16_Witness ==
    /\ call.op = "_create_detail_chunks"
    /\ call.returned
    /\ Len(ret) >= 2
    /\ Len(ret[2].content) >= 2
    /\ ret[2].content[1] = ret[1].content[Len(ret[1].content)]
    /\ ret[2].content[1] # ret[2].content[2]
    /\ Rebuilds(ret, 1, call.transcript)

RECURSIVE SegmentsBefore(_, _)
\* the number of segments in the chunks before the k-th
SegmentsBefore(chunks, k) ==
    IF k <= 1 THEN 0 ELSE SegmentsBefore(chunks, k - 1) + Len(chunks[k - 1].content)

\* C17: every chunk of speaker-based chunking is made of consecutive segments of one
\* speaker, who is the chunk's speaker, and the chunks together are all segments in order
C17_OneSpeakerPerChunk ==
    (call.op = "_chunk_by_speakers" /\ call.returned) =>
        /\ SegmentsBefore(ret, Len(ret) + 1) = Len(call.speakers)
        /\ \A k \in 1..Len(ret) :
              /\ ret[k].content # <<>>
              /\ \A m \in 1..Len(ret[k].content) :
                    LET segment == call.speakers[SegmentsBefore(ret, k) + m]
                    IN  /\ segment[1] = ret[k].speaker
                        /\ segment[2] = ret[k].content[m]

\* C17: the maximum forced a split inside one speaker's turn, and another speaker follows
C17_Witness ==
    /\ call.op = "_chunk_by_speakers"
    /\ call.returned
    /\ Len(ret) = 3
    /\ ret[1].speaker = ret[2].speaker
    /\ ret[2].speaker # ret[3].speaker
    /\ ret[1].tokens + ret[2].tokens > max_chunk_tokens

(***************************************************************************)
(* Text ingestion (backend/api/ingest.py), one action per await.  Every    *)
(* statement runs on a connection of its own outside any transaction, so a *)
(* row is stored as soon as its INSERT returns.  A document id is a        *)
(* positive number; NoDocument is a document_id not yet assigned.          *)
(***************************************************************************)
\* most documents the database takes up
MaxDocuments == 2

NoDocument == 0

\* len(request.content) > 1000
SummaryMinChars == 1000

IngestContents == {<<>>, <<Piece("kurz", 200)>>, <<Piece("lang", 1600)>>}

TextIngestRequest(title, content, speaker) ==
    [title |-> title, content |-> content, speaker |-> speaker]

TextIngestRequests ==
    {TextIngestRequest("note", content, speaker) :
        content \in IngestContents, speaker \in {NoSpeaker, "Anna"}}

IngestSuccess(document_id, chunks_created) ==
    [kind |-> "success", document_id |-> document_id, chunks_created |-> chunks_created]

\* the except branch of ingest_text
IngestRaise ==
    ingest' = [ingest EXCEPT !.pc = "done", !.outcome = HTTPException(InternalError)]

ingest_text ==
    /\ ingest.pc = "idle"
    /\ Cardinality(tables.documents) < MaxDocuments
    /\ \E req \in TextIngestRequests :
          ingest' = [pc |-> "create_document", request |-> req, document_id |-> NoDocument,
                     chunks |-> <<>>, chunk_ids |-> <<>>, outcome |-> None]
    /\ UNCHANGED <<current_intent, unit_vars, pipeline_vars, tables>>

\* the document row is inserted, or the insert raises; then the content is chunked
await_create_document ==
    /\ ingest.pc = "create_document"
    /\ \/ /\ IngestRaise
          /\ UNCHANGED tables
       \/ LET document_id == Cardinality(tables.documents) + 1
              content == ingest.request.content
              speakers == IF ingest.request.speaker # NoSpeaker
                          THEN <<<<ingest.request.speaker,
                                   Piece("[content]", JoinedChars(content))>>>>
                          ELSE <<>>
          IN  /\ tables' = [tables EXCEPT !.documents =
                               @ \cup {[id |-> document_id, summary |-> FALSE]}]
              /\ ingest' = [ingest EXCEPT !.pc = "embed_document_hierarchical",
                                          !.document_id = document_id,
                                          !.chunks = chunk_transcript(content, <<>>, speakers)]
    /\ UNCHANGED <<current_intent, unit_vars, pipeline_vars>>

\* process_chunks: the embeddings arrive, or the connection or the embedding call raises
await_embed_document_hierarchical ==
    /\ ingest.pc = "embed_document_hierarchical"
    /\ \/ IngestRaise
       \/ ingest' = [ingest EXCEPT !.pc = "insert_chunk"]
    /\ UNCHANGED <<current_intent, unit_vars, pipeline_vars, tables>>

\* what follows process_chunks
AfterChunkInserts ==
    IF JoinedChars(ingest.request.content) > SummaryMinChars
    THEN [pc |-> "generate_document_summary", outcome |-> None]
    ELSE [pc |-> "done",
          outcome |-> IngestSuccess(ingest.document_id, Len(ingest.chunks))]

\* process_chunks: the next chunk row is inserted, or its insert raises; the chunks carry
\* no "id", so no colbert_tokens row follows the last chunk
await_insert_chunk ==
    /\ ingest.pc = "insert_chunk"
    /\ \/ /\ IngestRaise
          /\ UNCHANGED tables
       \/ LET i == Len(ingest.chunk_ids) + 1
              chunk_id == Cardinality(tables.chunks) + 1
          IN  /\ tables' = [tables EXCEPT !.chunks =
                               @ \cup {[id |-> chunk_id, document_id |-> ingest.document_id,
                                        chunk_index |-> ingest.chunks[i].chunk_index,
                                        chunk_type |-> ingest.chunks[i].chunk_type]}]
              /\ ingest' = [ingest EXCEPT !.chunk_ids = Append(@, chunk_id),
                               !.pc = IF i = Len(ingest.chunks)
                                      THEN AfterChunkInserts.pc ELSE "insert_chunk",
                               !.outcome = IF i = Len(ingest.chunks)
                                           THEN AfterChunkInserts.outcome ELSE None]
    /\ UNCHANGED <<current_intent, unit_vars, pipeline_vars>>

\* the summary is stored with the document, or its embedding or its update raises
await_generate_document_summary ==
    /\ ingest.pc = "generate_document_summary"
    /\ \/ /\ IngestRaise
          /\ UNCHANGED tables
       \/ /\ tables' = [tables EXCEPT !.documents =
                           (@ \ {[id |-> ingest.document_id, summary |-> FALSE]})
                               \cup {[id |-> ingest.document_id, summary |-> TRUE]}]
          /\ ingest' = [ingest EXCEPT !.pc = "done",
                           !.outcome = IngestSuccess(ingest.document_id, Len(ingest.chunks))]
    /\ UNCHANGED <<current_intent, unit_vars, pipeline_vars>>

\* the caller has its reply; the coroutine's locals are gone
ingest_deliver ==
    /\ ingest.pc = "done"
    /\ ingest' = [pc |-> "idle"]
    /\ UNCHANGED <<current_intent, unit_vars, pipeline_vars, tables>>

NextIngest ==
    \/ ingest_text
    \/ await_create_document
    \/ await_embed_document_hierarchical
    \/ await_insert_chunk
    \/ await_generate_document_summary
    \/ ingest_deliver

SpecIngest == Init /\ [][NextIngest]_vars

\* C14: when ingest_text ends, the document row and all its chunk rows are stored, or
\* neither the document row nor any chunk row of it is
C14_IngestAtomic ==
    ingest.pc = "done" =>
        LET document_stored == \E d \in tables.documents : d.id = ingest.document_id
            rows == {r \in tables.chunks : r.document_id = ingest.document_id}
        IN  \/ document_stored /\ Cardinality(rows) = Len(ingest.chunks)
            \/ ~document_stored /\ rows = {}

(***************************************************************************)
(* Retrieval (HybridRetriever, backend/core/retrieval.py).  A rank and a   *)
(* MaxSim mean are counted in hundredths, a final score in thousandths.    *)
(* A candidate's chunk_id is its position in candidate generation.         *)
(***************************************************************************)
\* most candidates _hybrid_search returns
MaxCandidates == 6
\* most detail chunks of the document the candidates belong to
MaxDetail == 3

\* use_colbert_rerank and len(initial_results) > 5
RerankMinCandidates == 5

\* the top_k of the callers: a small one and the default
TopKs == {3, 20}

\* a row of hybrid_search(); colbert_tokens is None or the MaxSim mean its tokens give
Candidate(chunk_id, chunk_index, rank, colbert_tokens) ==
    [chunk_id |-> chunk_id, document_id |-> 1, chunk_index |-> chunk_index, rank |-> rank,
     colbert_tokens |-> colbert_tokens]

\* hybrid_search() ends with ORDER BY rank DESC: the candidates arrive in that order
CandidateLists(most) ==
    UNION {
        {[k \in 1..n |-> Candidate(k, k - 1, ranks[k], tokens[k])] :
            ranks \in {r \in [1..n -> {30, 50}] : \A k \in 1..(n - 1) : r[k] >= r[k + 1]},
            tokens \in [1..n -> {None, [mean_max_sim |-> 80]}]} :
        n \in 0..most}

\* combined_score = 0.6 * rank + 0.4 * colbert_score, or the rank alone
colbert_score(result) ==
    IF result.colbert_tokens # None
    THEN 6 * result.rank + 4 * result.colbert_tokens.mean_max_sim
    ELSE 10 * result.rank

\* x goes in front of the results that score the same
InsertBeforeEqual(sorted, x) ==
    LET k == Cardinality({i \in 1..Len(sorted) : sorted[i].colbert_score > x.colbert_score})
    IN  SubSeq(sorted, 1, k) \o <<x>> \o SubSeq(sorted, k + 1, Len(sorted))

\* x goes behind the results that score as much or more
InsertIntoSorted(sorted, x) ==
    LET k == Cardinality({i \in 1..Len(sorted) : sorted[i].colbert_score >= x.colbert_score})
    IN  SubSeq(sorted, 1, k) \o <<x>> \o SubSeq(sorted, k + 1, Len(sorted))

RECURSIVE SortLoop(_, _)
SortLoop(sorted, rest) ==
    IF rest = <<>> THEN sorted
    ELSE SortLoop(InsertIntoSorted(sorted, Head(rest)), Tail(rest))

\* scored_results.sort(key=lambda x: x['colbert_score'], reverse=True)
sort_by_colbert_score(scored_results) == SortLoop(<<>>, scored_results)

Truncate(results, top_k) ==
    SubSeq(results, 1, IF Len(results) < top_k THEN Len(results) ELSE top_k)

\* raises when the token embeddings of the query cannot be had
_colbert_rerank(initial_results, top_k, colbert_available) ==
    IF ~colbert_available THEN Raised
    ELSE LET scored_results ==
                 [k \in 1..Len(initial_results) |->
                     [chunk_id |-> initial_results[k].chunk_id,
                      document_id |-> initial_results[k].document_id,
                      chunk_index |-> initial_results[k].chunk_index,
                      rank |-> initial_results[k].rank,
                      colbert_tokens |-> initial_results[k].colbert_tokens,
                      colbert_score |-> colbert_score(initial_results[k])]]
         IN  Returned(Truncate(sort_by_colbert_score(scored_results), top_k))

\* a row of the chunks table the surrounding query selects
DetailRow(document_id, chunk_index) ==
    [document_id |-> document_id, chunk_index |-> chunk_index, chunk_type |-> "detail"]

\* WHERE chunk_index IN ($2, $3) AND chunk_type = 'detail' ORDER BY chunk_index
Surrounding(document_id, low, high, detail_count) ==
    (IF 1 <= low /\ low <= detail_count THEN <<DetailRow(document_id, low)>> ELSE <<>>)
        \o (IF 1 <= high /\ high <= detail_count
            THEN <<DetailRow(document_id, high)>> ELSE <<>>)

\* the document and, for a chunk_index that is not 0, the context of one result
Enriched(result, detail_count) ==
    LET surrounding == Surrounding(result.document_id, result.chunk_index - 1,
                                   result.chunk_index + 1, detail_count)
    IN  [result |-> result,
         document |-> [id |-> result.document_id],
         context |->
            IF result.chunk_index # 0
            THEN [previous |-> IF Len(surrounding) > 0 THEN surrounding[1] ELSE None,
                  next |-> IF Len(surrounding) > 1 THEN surrounding[2] ELSE None]
            ELSE None]

_enrich_results(results, detail_count) ==
    [k \in 1..Len(results) |-> Enriched(results[k], detail_count)]

\* search with what its surroundings do: upstream_ok is FALSE when the dense embedding
\* call or a storage call raises
search(initial_results, top_k, use_colbert_rerank, upstream_ok, colbert_available, detail_count) ==
    IF ~upstream_ok THEN Raised
    ELSE IF initial_results = <<>> THEN Returned(<<>>)
    ELSE IF use_colbert_rerank /\ Len(initial_results) > RerankMinCandidates
    THEN LET results == _colbert_rerank(initial_results, top_k, colbert_available)
         IN  IF results.ok THEN Returned(_enrich_results(results.value, detail_count))
             ELSE Raised
    ELSE Returned(_enrich_results(Truncate(initial_results, top_k), detail_count))

\* the calls of search that are tried; _hybrid_search is asked for top_k * 2 rows
RetrievalCalls(most, details) ==
    {[op |-> "search", initial_results |-> initial_results, top_k |-> top_k,
      use_colbert_rerank |-> use_colbert_rerank, upstream_ok |-> upstream_ok,
      colbert_available |-> colbert_available, detail_count |-> detail_count,
      returned |-> FALSE] :
        initial_results \in CandidateLists(most), top_k \in TopKs,
        use_colbert_rerank \in BOOLEAN, upstream_ok \in BOOLEAN,
        colbert_available \in BOOLEAN, detail_count \in 0..details}

InitRetrieval ==
    /\ InitIdle
    /\ call \in {c \in RetrievalCalls(MaxCandidates, MaxDetail) : Len(c.initial_results) <= c.top_k * 2}
    /\ ret = <<>>

Search ==
    /\ call.op = "search" /\ ~call.returned
    /\ call' = [call EXCEPT !.returned = TRUE]
    /\ ret' = search(call.initial_results, call.top_k, call.use_colbert_rerank,
                     call.upstream_ok, call.colbert_available, call.detail_count)
    /\ UNCHANGED <<current_intent, pipeline_vars, ingest_vars>>

NextRetrieval == Search

SpecRetrieval == InitRetrieval /\ [][NextRetrieval]_vars

\* the score a returned result was ranked by
FinalScore(entry) ==
    IF "colbert_score" \in DOMAIN entry.result
    THEN entry.result.colbert_score ELSE 10 * entry.result.rank

SearchReturned == call.op = "search" /\ call.returned /\ ret.ok

C19_RerankDegrades ==
    ( /\ call.op = "search" /\ call.returned
      /\ call.upstream_ok
      /\ call.use_colbert_rerank
      /\ Len(call.initial_results) > RerankMinCandidates
      /\ ~call.colbert_available )
    => /\ ret.ok
       /\ [k \in 1..Len(ret.value) |-> ret.value[k].result.chunk_id]
             = [k \in 1..Len(Truncate(call.initial_results, call.top_k)) |->
                   call.initial_results[k].chunk_id]

\* C20: the context of an enriched detail chunk has the detail chunk one index lower as
\* previous and the one one index higher as next, None where there is none
C20_ContextNeighbours ==
    SearchReturned =>
        \A k \in 1..Len(ret.value) :
            LET index == ret.value[k].result.chunk_index
                document_id == ret.value[k].result.document_id
            IN  (1 <= index /\ index <= call.detail_count) =>
                   /\ ret.value[k].context.previous =
                         (IF index - 1 >= 1
                          THEN DetailRow(document_id, index - 1) ELSE None)
                   /\ ret.value[k].context.next =
                         (IF index + 1 <= call.detail_count
                          THEN DetailRow(document_id, index + 1) ELSE None)

(***************************************************************************)
(* SmartQueryRouter.analyze_query in full (backend/core/smart_routing.py). *)
(* A query is its words; a word carries no blank and no punctuation, so    *)
(* the strip(' .?,') of the slots changes nothing.  A slot is None or      *)
(* Str(text).  A confidence is counted in hundredths.                      *)
(***************************************************************************)
\* most words of a query handed to analyze_query
MaxQueryWords == 3

Str(text) == [tag |-> "str", text |-> text]

\* the words of the vocabulary that hold another word of it as a substring
ProperSubstring == {<<"vorgestern", "gestern">>, <<"videos", "video">>, <<"details", "detail">>}

\* pattern in word
InWord(pattern, word) == word = pattern \/ <<word, pattern>> \in ProperSubstring

\* pattern in query_lower, for a pattern of one word or of two
InText(pattern, text) ==
    IF Len(pattern) = 1
    THEN \E i \in 1..Len(text) : InWord(pattern[1], text[i])
    ELSE \E i \in 1..(Len(text) - 1) : text[i] = pattern[1] /\ text[i + 1] = pattern[2]

Least(S) == CHOOSE x \in S : \A y \in S : x <= y

\* the places of a word of words that another word follows
MarkerPlaces(text, from, words) == {i \in from..(Len(text) - 1) : text[i] \in words}

QueryIntent(type, entities, confidence) ==
    [query_type |-> type, entities |-> entities, confidence |-> confidence]

\* re.search(r'von\s+([\w]+)'): the word after the first von
AuthorOfVideo(q) ==
    LET places == MarkerPlaces(q, 1, {"von"})
    IN  IF places = {} THEN None ELSE Str(<<q[Least(places) + 1]>>)

\* re.search(r'(?:über|zu|zum thema)\s+(.+?)(?:\.|$)'): the rest after the first marker
TopicOfVideo(q) ==
    LET places == MarkerPlaces(q, 1, {"über", "zu"})
                      \cup {i \in 1..(Len(q) - 2) : q[i] = "zum" /\ q[i + 1] = "thema"}
        i == Least(places)
    IN  IF places = {} THEN None
        ELSE Str(SubSeq(q, IF q[i] = "zum" THEN i + 2 ELSE i + 1, Len(q)))

\* the places of the word that names the document type
TypePlaces(q, doc_type) == {i \in 1..Len(q) : InWord(doc_type, q[i])}

\* doc_patterns['artikel']: something follows artikel, all of it is the topic
ArtikelMatch(q) ==
    LET places == {i \in TypePlaces(q, "artikel") : i < Len(q)}
    IN  IF places = {} THEN None
        ELSE [doc_type |-> "artikel", author |-> None,
              topic |-> Str(SubSeq(q, Least(places) + 1, Len(q)))]

\* doc_patterns['gespräch']: the word after the first mit or von behind gespräch
GespraechMatch(q) ==
    LET places == {i \in TypePlaces(q, "gespräch") : MarkerPlaces(q, i + 1, {"mit", "von"}) # {}}
    IN  IF places = {} THEN None
        ELSE [doc_type |-> "gespräch",
              author |-> Str(<<q[Least(MarkerPlaces(q, Least(places) + 1, {"mit", "von"})) + 1]>>),
              topic |-> None]

\* doc_patterns['transkript']: the rest after the first von or über behind transkript
TranskriptMatch(q) ==
    LET places == {i \in TypePlaces(q, "transkript") : MarkerPlaces(q, i + 1, {"von", "über"}) # {}}
    IN  IF places = {} THEN None
        ELSE [doc_type |-> "transkript",
              author |-> Str(SubSeq(q, Least(MarkerPlaces(q, Least(places) + 1, {"von", "über"})) + 1,
                                    Len(q))),
              topic |-> None]

\* the loop over doc_patterns, in the order of the dict; its video pattern needs the word
\* video, which has returned before the loop
DocPatternMatch(q) ==
    IF ArtikelMatch(q) # None THEN ArtikelMatch(q)
    ELSE IF GespraechMatch(q) # None THEN GespraechMatch(q)
    ELSE TranskriptMatch(q)

attribution_phrases == {<<"hat", "gesagt">>, <<"meinte">>, <<"erwähnte">>, <<"sagte">>}

\* re.search(r'(\w+)\s+(?:hat|meinte|erwähnte|sagte)'): the first word that one of these follows
SpeakerOf(q) ==
    LET places == {i \in 1..(Len(q) - 1) : q[i + 1] \in {"hat", "meinte", "erwähnte", "sagte"}}
    IN  IF places = {} THEN None ELSE Str(<<q[Least(places)]>>)

\* temporal_patterns, in the order of the dict
temporal_patterns ==
    <<[pattern |-> <<"heute">>, days_ago |-> 0],
      [pattern |-> <<"gestern">>, days_ago |-> 1],
      [pattern |-> <<"vorgestern">>, days_ago |-> 2],
      [pattern |-> <<"letzte", "woche">>, days_ago |-> 7],
      [pattern |-> <<"letzten", "monat">>, days_ago |-> 30],
      [pattern |-> <<"neulich">>, days_ago |-> 14]>>

Digits == <<"0", "1", "2", "3", "4", "5", "6", "7", "8", "9">>

RECURSIVE str(_)
\* str(n) of a natural number
str(n) == IF n < 10 THEN Digits[n + 1] ELSE str(n \div 10) \o Digits[(n % 10) + 1]

\* the temporal patterns found in the query, by their place in the dict
TemporalPlaces(q) ==
    {k \in 1..Len(temporal_patterns) : InText(temporal_patterns[k].pattern, q)}

\* the rules of analyze_query, each by the condition the code tests
DocumentRule(q) == InText(<<"video">>, q) \/ DocPatternMatch(q) # None
SpeakerRule(q) == \E phrase \in attribution_phrases : InText(phrase, q)
TemporalRule(q) == TemporalPlaces(q) # {}

\* the cascade with the temporal rule tested before the speaker rule
CascadeTemporalFirst(document, speaker, temporal) ==
    IF document THEN "document_ref"
    ELSE IF temporal THEN "temporal"
    ELSE IF speaker THEN "speaker_ref"
    ELSE "general"

\* the order in which analyze_query tests its rules and returns
Cascade(document, speaker, temporal) ==
    IF document THEN "document_ref"
    ELSE IF speaker THEN "speaker_ref"
    ELSE IF temporal THEN "temporal"
    ELSE "general"

analyze_query(query) ==
    LET query_lower == LowerText(query)
        type == Cascade(DocumentRule(query_lower), SpeakerRule(query_lower),
                        TemporalRule(query_lower))
    IN  IF type = "document_ref"
        THEN IF InText(<<"video">>, query_lower)
             THEN QueryIntent(type, [doc_type |-> "video", author |-> AuthorOfVideo(query_lower),
                                     topic |-> TopicOfVideo(query_lower)], 90)
             ELSE QueryIntent(type, DocPatternMatch(query_lower), 90)
        ELSE IF type = "speaker_ref"
        THEN QueryIntent(type, [speaker |-> SpeakerOf(query_lower)], 85)
        ELSE IF type = "temporal"
        THEN QueryIntent(type,
                 [days_ago |-> str(temporal_patterns[Least(TemporalPlaces(query_lower))].days_ago)],
                 80)
        ELSE QueryIntent("general", <<>>, 50)

\* the words the analysed queries are made of
AnalyzeVocabulary ==
    {"Video", "artikel", "gespräch", "transkript", "von", "über", "max", "docker", "hat",
     "gesagt", "sagte", "heute", "gestern", "vorgestern", "letzte", "woche", "letzten",
     "monat", "neulich", "was", "passiert"}


(***************************************************************************)
(* The searches of SmartQueryRouter over the stored documents and chunks.  *)
(* A created_at is a day number; a LIKE '%x%' on a title or a content is   *)
(* the words of x standing in it one after the other.                      *)
(***************************************************************************)
\* most documents stored when a query is routed
MaxStored == 2

\* LIMIT 5 of the document query
DocumentLimit == 5
\* LIMIT 20 of the speaker query
SpeakerChunkLimit == 20
\* int(entities.get('days_ago', 7)) for a missing slot
DefaultDaysAgo == 7
\* datetime.now(), as a day number
Today == 40

StoredDocument(id, title, source_type, created_at, full_content) ==
    [id |-> id, title |-> title, source_type |-> source_type, created_at |-> created_at,
     full_content |-> full_content]

StoredChunk(document_id, chunk_index, chunk_type, content, speaker) ==
    [document_id |-> document_id, chunk_index |-> chunk_index, chunk_type |-> chunk_type,
     content |-> content, speaker |-> speaker]

\* LOWER(text) LIKE '%pattern%'
Like(text, pattern) ==
    \E i \in 1..(Len(text) - Len(pattern) + 1) :
        \A k \in 1..Len(pattern) : InWord(pattern[k], Lower(text[i + k - 1]))

RECURSIVE OrderedBy(_, _, _)
\* the rows in the order of key(row), the greatest first when descending
OrderedBy(rows, key(_), descending) ==
    IF rows = {} THEN <<>>
    ELSE LET first == CHOOSE r \in rows :
                          \A o \in rows : IF descending THEN key(r) >= key(o)
                                          ELSE key(r) <= key(o)
         IN  <<first>> \o OrderedBy(rows \ {first}, key, descending)

Limit(rows, n) == SubSeq(rows, 1, IF Len(rows) < n THEN Len(rows) ELSE n)

\* a slot that is set and not empty
Truthy(slot) == slot # None /\ slot # Str(<<>>)

full_context_indicators ==
    {<<"gesamt">>, <<"vollständig">>, <<"komplett">>, <<"alles">>, <<"detail">>, <<"genau">>,
     <<"exakt">>, <<"wörtlich">>, <<"komplette", "transkript">>, <<"ganze", "gespräch">>,
     <<"alle", "themen">>}

_needs_full_context(query) ==
    LET query_lower == LowerText(query)
    IN  \/ \E indicator \in full_context_indicators : InText(indicator, query_lower)
        \/ /\ \E i \in 1..(Len(query_lower) - 1) :
                 /\ query_lower[i] \in {"dieses", "diesem", "diese"}
                 /\ query_lower[i + 1] \in {"gespräch", "transkript", "video", "interview"}
           /\ \E word \in {"alles", "gesamt", "komplett", "detail"} :
                 InText(<<word>>, query_lower)

\* the WHERE clause of the document query: the conditions joined by OR
DocumentConditions(entities, doc) ==
    \/ Truthy(entities.author) /\ Like(doc.title, entities.author.text)
    \/ Truthy(entities.topic) /\ Like(doc.title, entities.topic.text)
    \/ entities.doc_type = "video"
          /\ (doc.source_type = "youtube" \/ Like(doc.title, <<"video">>))

\* the chunk dict of a stored chunk with its document entry
RoutedChunk(chunk, document) == [chunk |-> chunk, document |-> document]

CreatedAt(row) == row.created_at
ChunkIndex(row) == row.chunk_index

_document_reference_search(db, query, entities) ==
    LET conditions == Truthy(entities.author) \/ Truthy(entities.topic)
                          \/ entities.doc_type = "video"
        docs == Limit(OrderedBy({d \in db.documents : DocumentConditions(entities, d)},
                                CreatedAt, TRUE), DocumentLimit)
        doc == docs[1]
        chunks == OrderedBy({c \in db.chunks : c.document_id = doc.id}, ChunkIndex, FALSE)
    IN  IF ~conditions \/ docs = <<>>
        THEN [strategy |-> "document_ref", documents |-> <<>>, chunks |-> <<>>]
        ELSE IF _needs_full_context(query) /\ doc.full_content # <<>>
        THEN [strategy |-> "document_ref", documents |-> docs,
              chunks |-> <<RoutedChunk(StoredChunk(doc.id, 0, "full_document",
                                                   doc.full_content, NoSpeaker),
                                       [document_title |-> doc.title,
                                        document_id |-> str(doc.id)])>>,
              focused_doc_id |-> str(doc.id), used_full_content |-> TRUE]
        ELSE [strategy |-> "document_ref", documents |-> docs,
              chunks |-> [k \in 1..Len(chunks) |->
                             RoutedChunk(chunks[k], [document_title |-> doc.title,
                                                     document_id |-> str(doc.id)])],
              focused_doc_id |-> str(doc.id), used_full_content |-> FALSE]

TitleOf(db, document_id) == (CHOOSE d \in db.documents : d.id = document_id).title
CreatedAtOf(db, document_id) == (CHOOSE d \in db.documents : d.id = document_id).created_at

\* a chunk is stored after the chunks before it of its document
ChunkCreatedAt(db, chunk) == CreatedAtOf(db, chunk.document_id) * 100 + chunk.chunk_index

WithTitles(db, chunks) ==
    [k \in 1..Len(chunks) |->
        RoutedChunk(chunks[k], [document_title |-> TitleOf(db, chunks[k].document_id)])]

\* speaker.lower() of a speaker slot that is None raises
_speaker_reference_search(db, query, entities) ==
    IF entities.speaker = None THEN Raised
    ELSE LET speaker == entities.speaker.text
             stamp(c) == ChunkCreatedAt(db, c)
             chunks == Limit(OrderedBy({c \in db.chunks :
                                           \/ c.speaker # NoSpeaker /\ Like(<<c.speaker>>, speaker)
                                           \/ Like(c.content, speaker)},
                                       stamp, TRUE), SpeakerChunkLimit)
         IN  Returned([strategy |-> "speaker_ref", speaker |-> speaker,
                       chunks |-> WithTitles(db, chunks)])

\* int(text) of the digits of a natural number
int(text) == CHOOSE n \in 0..99 : str(n) = text

\* the chunks of the documents created since the day, newest document first and the chunks of
\* one document in the order they were stored
_temporal_search(db, query, entities) ==
    LET days_ago == IF "days_ago" \in DOMAIN entities THEN int(entities.days_ago)
                    ELSE DefaultDaysAgo
        since_date == Today - days_ago
        stamp(c) == CreatedAtOf(db, c.document_id) * 100 - c.chunk_index
        chunks == OrderedBy({c \in db.chunks : CreatedAtOf(db, c.document_id) >= since_date},
                            stamp, TRUE)
    IN  [strategy |-> "temporal", since_date |-> since_date, chunks |-> WithTitles(db, chunks)]

\* route_query on a stored state; connected is FALSE when asyncpg.connect raises
SmartQueryRouter_route_query(db, query, connected) ==
    LET intent == analyze_query(query)
    IN  IF ~connected THEN Raised
        ELSE IF intent.query_type = "document_ref"
        THEN Returned(_document_reference_search(db, query, intent.entities))
        ELSE IF intent.query_type = "speaker_ref"
        THEN _speaker_reference_search(db, query, intent.entities)
        ELSE IF intent.query_type = "temporal"
        THEN Returned(_temporal_search(db, query, intent.entities))
        ELSE Returned([strategy |-> "general", intent |-> intent])

\* the titles and the transcripts of the stored documents
TitlePool == {<<"Max", "Docker">>, <<"Anna", "Kochen">>}

\* the chunks ingestion stored for a document: its summary and one detail chunk
ChunksOfStored(doc) ==
    {StoredChunk(doc.id, 0, "summary", doc.title, NoSpeaker),
     StoredChunk(doc.id, 1, "detail", <<"docker", "läuft">>, doc.title[1])}

\* a stored state: documents 1..n, created on different days in any order
StoredState(n, title, source_type, full, day) ==
    LET document(k) == StoredDocument(k, title[k], source_type[k], Today - day[k],
                                      IF full[k] THEN <<"docker", "läuft", "immer">> ELSE <<>>)
    IN  [documents |-> {document(k) : k \in 1..n},
         chunks |-> UNION {ChunksOfStored(document(k)) : k \in 1..n}]

\* the orders in which n documents were created
CreationOrders(n) == {f \in [1..n -> 0..(n - 1)] : \A i, j \in 1..n : i # j => f[i] # f[j]}

\* the queries that are routed
RouteQueries ==
    {<<"Video", "von", "max">>, <<"video", "über", "docker", "details">>,
     <<"alles", "im", "video", "von", "anna">>,
     <<"artikel", "docker">>, <<"gespräch", "mit", "anna">>,
     <<"transkript", "von", "anna", "kochen">>,
     <<"sagte", "max", "das">>, <<"max", "sagte", "docker">>,
     <<"was", "ist", "vorgestern", "passiert">>, <<"was", "ist", "heute", "passiert">>,
     <<"wie", "läuft", "docker">>}

AnalyzeCall(query) == [op |-> "analyze_query", query |-> query, returned |-> FALSE]

RouteCall(query, db, connected) ==
    [op |-> "route_query", query |-> query, db |-> db, connected |-> connected,
     returned |-> FALSE]

\* one call is drawn: analyze_query on a query of up to MaxQueryWords words, or route_query
\* on one of the routed queries and a stored state of up to MaxStored documents
InitRouting ==
    /\ InitIdle
    /\ ret = <<>>
    /\ \/ \E n \in 0..MaxQueryWords : \E query \in [1..n -> AnalyzeVocabulary] :
             call = AnalyzeCall(query)
       \/ \E n \in 0..MaxStored :
             \E title \in [1..n -> TitlePool], source_type \in [1..n -> {"youtube", "text"}],
                full \in [1..n -> BOOLEAN], day \in CreationOrders(n) :
                \E query \in RouteQueries, connected \in BOOLEAN :
                    call = RouteCall(query, StoredState(n, title, source_type, full, day),
                                     connected)

AnalyzeQuery ==
    /\ call.op = "analyze_query" /\ ~call.returned
    /\ call' = [call EXCEPT !.returned = TRUE]
    /\ ret' = analyze_query(call.query)
    /\ UNCHANGED <<current_intent, pipeline_vars, ingest_vars>>

RouteQuery ==
    /\ call.op = "route_query" /\ ~call.returned
    /\ call' = [call EXCEPT !.returned = TRUE]
    /\ ret' = SmartQueryRouter_route_query(call.db, call.query, call.connected)
    /\ UNCHANGED <<current_intent, pipeline_vars, ingest_vars>>

NextRouting == AnalyzeQuery \/ RouteQuery

SpecRouting == InitRouting /\ [][NextRouting]_vars

Analyzed == call.op = "analyze_query" /\ call.returned

\* C21: the intent has the type of the first rule that matches in the order document,
\* speaker, temporal, general; a query that matches no rule is general with confidence
\* 0.5 and no slots
C21_RulePriority ==
    Analyzed =>
        LET q == LowerText(call.query)
        IN  /\ ret.query_type \in {"document_ref", "speaker_ref", "temporal", "general"}
            /\ DocumentRule(q) => ret.query_type = "document_ref"
            /\ (~DocumentRule(q) /\ SpeakerRule(q)) => ret.query_type = "speaker_ref"
            /\ (~DocumentRule(q) /\ ~SpeakerRule(q) /\ TemporalRule(q))
                   => ret.query_type = "temporal"
            /\ (~DocumentRule(q) /\ ~SpeakerRule(q) /\ ~TemporalRule(q))
                   => /\ ret.query_type = "general"
                      /\ ret.confidence = 50
                      /\ DOMAIN ret.entities = {}

\* C21: a query that triggers the speaker rule and the temporal rule came back speaker_ref
C21_Witness ==
    /\ Analyzed
    /\ ~DocumentRule(LowerText(call.query))
    /\ SpeakerRule(LowerText(call.query))
    /\ TemporalRule(LowerText(call.query))
    /\ ret.query_type = "speaker_ref"

Routed == call.op = "route_query" /\ call.returned

\* the stored documents the document query of the intent selects
Candidates == {d \in call.db.documents : DocumentConditions(analyze_query(call.query).entities, d)}

FocusedDocument == CHOOSE d \in call.db.documents : str(d.id) = ret.value.focused_doc_id

\* C22: the full text comes back as one chunk only when exactly one document matches and
\* the query needs full context; otherwise the chunks are all stored chunks of the focused
\* document in ascending chunk_index
C22_FullTextOnlyForSingleCandidate ==
    (Routed /\ ret.ok /\ ret.value.strategy = "document_ref" /\ ret.value.documents # <<>>) =>
        IF ret.value.used_full_content
        THEN Cardinality(Candidates) = 1 /\ _needs_full_context(call.query)
        ELSE /\ {ret.value.chunks[k].chunk : k \in 1..Len(ret.value.chunks)}
                   = {c \in call.db.chunks : c.document_id = FocusedDocument.id}
             /\ \A k \in 1..(Len(ret.value.chunks) - 1) :
                   ret.value.chunks[k].chunk.chunk_index
                       < ret.value.chunks[k + 1].chunk.chunk_index

\* C26: a query with one phrase of the relative-time table and no word of another rule is
\* temporal with the days_ago of that phrase
C26_OwnOffset ==
    Analyzed =>
        \A k \in 1..Len(temporal_patterns) :
            LET q == LowerText(call.query)
                pattern == temporal_patterns[k].pattern
                stands == \E i \in 1..(Len(q) - Len(pattern) + 1) :
                              SubSeq(q, i, i + Len(pattern) - 1) = pattern
                others == \E o \in 1..Len(temporal_patterns) :
                              /\ o # k
                              /\ \E i \in 1..Len(q) : q[i] = temporal_patterns[o].pattern[1]
            IN  (stands /\ ~others /\ ~DocumentRule(q) /\ ~SpeakerRule(q)) =>
                    /\ ret.query_type = "temporal"
                    /\ ret.entities.days_ago = str(temporal_patterns[k].days_ago)

\* C29: route_query returns a result for every intent once connected, also for a
\* speaker_ref intent whose speaker slot is unset
C29_RouteNeverRaises ==
    (Routed /\ call.connected) =>
        /\ ret.ok
        /\ analyze_query(call.query).query_type = "speaker_ref"
               => ret.value.strategy \in {"speaker_ref", "general"}

\* C30: when a stored title contains the author or the topic of a document_ref query, the
\* title of the focused document contains one of them
C30_FocusedTitleMatches ==
    LET entities == analyze_query(call.query).entities
        matches(d) == \/ Truthy(entities.author) /\ Like(d.title, entities.author.text)
                      \/ Truthy(entities.topic) /\ Like(d.title, entities.topic.text)
    IN  ( /\ Routed /\ ret.ok
          /\ analyze_query(call.query).query_type = "document_ref"
          /\ \E d \in call.db.documents : matches(d) )
        => /\ "focused_doc_id" \in DOMAIN ret.value
           /\ matches(FocusedDocument)

(***************************************************************************)
(* The source of the context chunks (chat.py, step 3).                     *)
(***************************************************************************)
\* the pipeline of slot s has chosen the source of its chunks
SourceChosen(s) ==
    calls[s] \cap {"fetch_fuzzy_chunks", "hybrid_search", "find_cross_context_insights",
                   "route_to_model"} # {}

\* unique_chunks without the chunk of cross-context insights put in front of it
ContextChunks(s) == SelectSeq(unique_chunks[s], LAMBDA c : c.chunk_type # "cross_context")

RoutedDocument(s) ==
    routing_result[s].strategy = "document_ref" /\ routing_result[s].chunks # <<>>

Boosted(chunk) ==
    \E j \in 1..Len(chunk.content) : Lower(chunk.content[j].text) \in importance_keywords

\* the third of the chunk list the chunk at place k lies in
ThirdOf(k, n) ==
    IF 3 * (k - 1) < n THEN "first" ELSE IF 3 * (k - 1) >= 2 * n THEN "last" ELSE "middle"

\* a <= b for two fractions with positive denominators
FractionLeq(a, b) == a.num * b.den <= b.num * a.den

\* C24: among detail chunks with the same keyword boost a chunk of the first or last third
\* never scores lower than a chunk of the middle third; a detail score lies in [0,1], a
\* summary chunk has 1.0 and a topic chunk 0.8
C24_EdgesNotBelowMiddle ==
    (call.op = "chunk_transcript" /\ call.returned) =>
        /\ \A k \in 1..Len(ret) :
              /\ ret[k].chunk_type = "summary" => ret[k].importance_score = Fraction(1, 1)
              /\ ret[k].chunk_type = "topic" => ret[k].importance_score = Fraction(4, 5)
              /\ ret[k].chunk_type = "detail" =>
                    /\ FractionLeq(Fraction(0, 1), ret[k].importance_score)
                    /\ FractionLeq(ret[k].importance_score, Fraction(1, 1))
        /\ \A a, b \in 1..Len(ret) :
              ( /\ ret[a].chunk_type = "detail" /\ ret[b].chunk_type = "detail"
                /\ Boosted(ret[a]) = Boosted(ret[b])
                /\ ThirdOf(a, Len(ret)) \in {"first", "last"}
                /\ ThirdOf(b, Len(ret)) = "middle" )
              => FractionLeq(ret[b].importance_score, ret[a].importance_score)

(***************************************************************************)
(* The original question of a request's history.                           *)
(***************************************************************************)
\* chat() has just set current_intent from the history of slot s
IntentJustExtracted(s) == pc[s] = "fuzzy_search_documents"

\* C28: the original question taken from a non-empty history is the content of its first
\* user message that is longer than 20 characters and not a greeting, never the content
\* of an assistant message
C28_OriginalQuestionFromUser ==
    \A s \in Slots :
        (IntentJustExtracted(s) /\ request[s].conversation_history # <<>>) =>
            LET messages == request[s].conversation_history
            IN  /\ \E k \in 1..Len(messages) :
                      /\ IsSubstantive(messages[k])
                      /\ \A j \in 1..(k - 1) : ~IsSubstantive(messages[j])
                      /\ current_intent.original_question = messages[k].content
                /\ \A k \in 1..Len(messages) :
                      messages[k].role = "assistant"
                          => current_intent.original_question # messages[k].content

(***************************************************************************)
(* CrossContextReasoner (backend/core/cross_context_reasoning.py) over a   *)
(* stored state.  An insight string is a record of its kind, the person it *)
(* names ("" for none) and the titles it names, in the order of the string.*)
(***************************************************************************)
\* most documents stored when insights are sought
MaxCrossDocuments == 2

\* LIMIT 5 of the related-documents query
RelatedLimit == 5
\* doc_titles[:3]
TitlesNamed == 3

Capitalised(w) == Lower(w) # w

known_entities == {"Sascha", "Marco", "Antonio", "Careli", "Claude", "MCP"}

\* the runs of capitalised words of the text, and the known entities it holds
_extract_entities(text) ==
    LET runs == {p \in (1..Len(text)) \X (1..Len(text)) :
                    /\ p[1] <= p[2]
                    /\ \A k \in p[1]..p[2] : Capitalised(text[k])
                    /\ p[1] > 1 => ~Capitalised(text[p[1] - 1])
                    /\ p[2] < Len(text) => ~Capitalised(text[p[2] + 1])}
        known == {e \in known_entities : InText(<<Lower(e)>>, LowerText(text))}
    IN  {SubSeq(text, p[1], p[2]) : p \in runs} \cup {<<entity>> : entity \in known}

concept_words ==
    {"server", "tool", "system", "platform", "automation", "integration",
     "lösung", "problem", "anforderung", "bedarf"}

\* the words of the text that end with one of the concept words
_extract_concepts(text) == {w \in Range(text) : Lower(w) \in concept_words}

\* the document entry of a primary result
PrimaryDocument(result) ==
    [id |-> result.chunk.document_id, title |-> result.document.document_title,
     source_type |-> None, created_at |-> result.document.created_at]

RECURSIVE UniqueLoop(_, _)
UniqueLoop(results, seen) ==
    IF results = <<>> THEN <<>>
    ELSE IF Head(results).chunk.document_id \in seen THEN UniqueLoop(Tail(results), seen)
    ELSE <<PrimaryDocument(Head(results))>>
             \o UniqueLoop(Tail(results), seen \cup {Head(results).chunk.document_id})

_get_unique_documents(results) == UniqueLoop(results, {})

Ids(docs) == {docs[k].id : k \in 1..Len(docs)}

RelevanceCount(row) == row.relevance_count

\* the documents outside the primary ones with a chunk of a speaker named in the query, of
\* a concept of the query or naming a primary title, the most such chunks first
_find_related_documents(db, primary_docs, entities, concepts) ==
    LET hit(c) == \/ c.speaker # NoSpeaker /\ <<c.speaker>> \in entities
                  \/ \E concept \in concepts : Like(c.content, <<Lower(concept)>>)
                  \/ \E k \in 1..Len(primary_docs) :
                        Like(c.content, LowerText(primary_docs[k].title))
        hits(d) == {c \in db.chunks : c.document_id = d.id /\ hit(c)}
        rows == {[id |-> d.id, title |-> d.title, source_type |-> d.source_type,
                  relevance_count |-> Cardinality(hits(d))] :
                    d \in {x \in db.documents : x.id \notin Ids(primary_docs) /\ hits(x) # {}}}
    IN  IF primary_docs = <<>> THEN <<>>
        ELSE Limit(OrderedBy(rows, RelevanceCount, TRUE), RelatedLimit)

Insight(kind, person, titles) == [kind |-> kind, person |-> person, titles |-> titles]

RECURSIVE SeqOfSet(_)
\* the rows of a query without ORDER BY, in the order the storage gives them
SeqOfSet(S) ==
    IF S = {} THEN <<>>
    ELSE LET x == CHOOSE y \in S : TRUE IN <<x>> \o SeqOfSet(S \ {x})

\* the titles of the documents of all_docs that have one of the ids, by id
TitlesOf(all_docs, doc_ids) ==
    LET found == SelectSeq(all_docs, LAMBDA d : d.id \in doc_ids)
        by_id == OrderedBy(Ids(found), LAMBDA id : id, FALSE)
    IN  [k \in 1..Len(by_id) |->
            (CHOOSE d \in Range(found) : d.id = by_id[k]).title]

_find_people_connections(db, primary_docs, related_docs) ==
    LET all_docs == primary_docs \o related_docs
        people_mentions == {<<c.speaker, c.document_id>> :
                               c \in {x \in db.chunks : x.document_id \in Ids(all_docs)
                                                           /\ x.speaker # NoSpeaker}}
        person_docs(person) == {m[2] : m \in {x \in people_mentions : x[1] = person}}
        several == {person \in {m[1] : m \in people_mentions} :
                       Cardinality(person_docs(person)) > 1}
        persons == SeqOfSet(several)
    IN  [k \in 1..Len(persons) |->
            Insight("people", persons[k],
                    Limit(TitlesOf(all_docs, person_docs(persons[k])), TitlesNamed))]

solution_keywords == {"how", "kann", "könnte", "solve", "help", "nutzen", "einsetzen"}
problem_words == {"problem", "need", "challenge", "anforderung"}
solution_words == {"solution", "lösung", "approach", "tool"}

HasWordOf(db, document_id, words) ==
    \E c \in db.chunks :
        c.document_id = document_id /\ \E w \in words : Like(c.content, <<w>>)

RECURSIVE Flatten(_)
Flatten(seqs) == IF seqs = <<>> THEN <<>> ELSE Head(seqs) \o Flatten(Tail(seqs))

_find_solution_matches(db, query, primary_docs, related_docs) ==
    IF ~\E kw \in solution_keywords : InText(<<kw>>, LowerText(query)) THEN <<>>
    ELSE Flatten([p \in 1..Len(primary_docs) |->
             Flatten([r \in 1..Len(related_docs) |->
                 IF HasWordOf(db, primary_docs[p].id, problem_words)
                        /\ HasWordOf(db, related_docs[r].id, solution_words)
                 THEN <<Insight("solution", "",
                                <<related_docs[r].title, primary_docs[p].title>>)>>
                 ELSE <<>>])])

\* the concepts of a document: the runs of words of its topic chunks
_extract_document_concepts(db, document_id) ==
    {LowerText(c.content) :
        c \in {x \in db.chunks : x.document_id = document_id /\ x.chunk_type = "topic"
                                     /\ CharLen(x.content) > 3}}

Dated(doc) == "created_at" \in DOMAIN doc /\ doc.created_at # None

_find_temporal_patterns(db, primary_docs, related_docs) ==
    LET dated == SelectSeq(primary_docs \o related_docs, Dated)
        dated_docs == OrderedBy(Range(dated), LAMBDA d : d.created_at.day, FALSE)
    IN  Flatten([i \in 1..(Len(dated_docs) - 1) |->
            IF _extract_document_concepts(db, dated_docs[i].id)
                   \cap _extract_document_concepts(db, dated_docs[i + 1].id) # {}
            THEN <<Insight("topic_evolution", "",
                           <<dated_docs[i].title, dated_docs[i + 1].title>>)>>
            ELSE <<>>])

tech_keywords ==
    {"api", "integration", "automation", "tool", "server", "system",
     "platform", "framework", "service", "protocol", "workflow"}

\* the technology keywords the chunks of the document hold
Techs(db, document_id) == {kw \in tech_keywords : HasWordOf(db, document_id, {kw})}

\* the test of a pair in both directions
ComplementaryEitherWay(doc1_techs, doc2_techs) ==
    \/ "api" \in doc1_techs /\ "integration" \in doc2_techs
    \/ "server" \in doc1_techs /\ "automation" \in doc2_techs
    \/ "api" \in doc2_techs /\ "integration" \in doc1_techs
    \/ "server" \in doc2_techs /\ "automation" \in doc1_techs

\* the test of a pair whose first document has the smaller id
Complementary(doc1_techs, doc2_techs) ==
    \/ "api" \in doc1_techs /\ "integration" \in doc2_techs
    \/ "server" \in doc1_techs /\ "automation" \in doc2_techs

_find_technology_synergies(db, primary_docs, related_docs) ==
    LET all_docs == primary_docs \o related_docs
    IN  Flatten([a \in 1..Len(all_docs) |->
            Flatten([b \in 1..Len(all_docs) |->
                IF all_docs[a].id < all_docs[b].id
                       /\ Complementary(Techs(db, all_docs[a].id), Techs(db, all_docs[b].id))
                THEN <<Insight("integration", "", <<all_docs[a].title, all_docs[b].title>>)>>
                ELSE <<>>])])

_extract_insights(db, query, primary_docs, related_docs) ==
    _find_people_connections(db, primary_docs, related_docs)
        \o _find_solution_matches(db, query, primary_docs, related_docs)
        \o _find_temporal_patterns(db, primary_docs, related_docs)
        \o _find_technology_synergies(db, primary_docs, related_docs)

Smaller(a, b) == IF a < b THEN a ELSE b

\* in hundredths
_calculate_confidence(insights, related_docs) ==
    Smaller(50 + Smaller(Len(insights) * 10, 30) + Smaller(Len(related_docs) * 5, 20), 100)

\* connected is FALSE when asyncpg.connect raises
find_cross_context_insights(db, query, primary_results, connected) ==
    IF ~connected THEN Raised
    ELSE LET entities == _extract_entities(query)
             concepts == _extract_concepts(query)
             primary_docs == _get_unique_documents(primary_results)
             related_docs == _find_related_documents(db, primary_docs, entities, concepts)
             insights == _extract_insights(db, query, primary_docs, related_docs)
         IN  Returned([query |-> query,
                       primary_context |-> IF primary_docs # <<>> THEN primary_docs[1] ELSE None,
                       related_contexts |-> related_docs,
                       insights |-> insights,
                       confidence |-> _calculate_confidence(insights, related_docs)])

CrossTitles == <<<<"Alpha">>, <<"Beta">>, <<"Gamma">>, <<"Delta">>>>

CrossContents ==
    {<<"api", "problem">>, <<"integration", "tool">>, <<"server", "alpha">>,
     <<"automation">>, <<"kochen">>}

\* documents 1..n, each with one topic chunk
CrossStates(stored) ==
    UNION {
        {[documents |-> {StoredDocument(k, CrossTitles[k], "text", Today - k, <<>>) : k \in 1..n},
          chunks |-> {StoredChunk(k, 1, "topic", content[k], speaker[k]) : k \in 1..n}] :
            content \in [1..n -> CrossContents], speaker \in [1..n -> {NoSpeaker, "Nina"}]} :
        n \in 1..stored}

CrossQueries ==
    {<<"was", "gibt", "es">>, <<"Was", "sagte", "Nina">>, <<"wie", "kann", "tool", "helfen">>}

\* the primary results on a stored state: chunks of some of its documents, in some order,
\* with the creation day of the document or without
PrimaryResults(db, dated) ==
    LET n == Cardinality(db.documents)
        chunk(k) == CHOOSE c \in db.chunks : c.document_id = k
        orders == UNION {{f \in [1..m -> 1..n] : \A i, j \in 1..m : i # j => f[i] # f[j]} :
                            m \in 1..n}
    IN  {[i \in 1..Len(order) |->
             RoutedChunk(chunk(order[i]),
                         [document_title |-> CrossTitles[order[i]],
                          created_at |-> IF dated THEN [day |-> Today - order[i]] ELSE None])] :
            order \in orders}

CrossCalls(stored) ==
    UNION {UNION {
        {[op |-> "find_cross_context_insights", db |-> db, query |-> query,
          primary_results |-> primary_results, connected |-> connected,
          returned |-> FALSE] :
            query \in CrossQueries, primary_results \in PrimaryResults(db, dated),
            connected \in BOOLEAN} :
        dated \in BOOLEAN} : db \in CrossStates(stored)}

InitCrossContext ==
    /\ InitIdle
    /\ call \in CrossCalls(MaxCrossDocuments)
    /\ ret = <<>>

FindCrossContextInsights ==
    /\ call.op = "find_cross_context_insights" /\ ~call.returned
    /\ call' = [call EXCEPT !.returned = TRUE]
    /\ ret' = find_cross_context_insights(call.db, call.query, call.primary_results,
                                          call.connected)
    /\ UNCHANGED <<current_intent, pipeline_vars, ingest_vars>>

NextCrossContext == FindCrossContextInsights

SpecCrossContext == InitCrossContext /\ [][NextCrossContext]_vars

InsightsReturned == call.op = "find_cross_context_insights" /\ call.returned /\ ret.ok

Speakers(db, document_id) ==
    {c.speaker : c \in {x \in db.chunks : x.document_id = document_id /\ x.speaker # NoSpeaker}}

\* C25: when two stored documents have chunks of the same speaker and one of them is
\* behind the primary results, some insight names the speaker and both titles, whatever
\* the query
C25_SharedSpeakerInsight ==
    InsightsReturned =>
        \A d1, d2 \in call.db.documents :
            \A person \in Speakers(call.db, d1.id) \cap Speakers(call.db, d2.id) :
                ( /\ d1.id # d2.id
                  /\ d1.id \in Ids(_get_unique_documents(call.primary_results)) )
                => \E k \in 1..Len(ret.value.insights) :
                      /\ ret.value.insights[k].person = person
                      /\ {d1.title, d2.title} \subseteq Range(ret.value.insights[k].titles)

\* C27: a pair of considered documents of which one holds api and the other integration,
\* or one server and the other automation, gets an integration insight, whichever of the
\* two has the smaller id
C27_SynergySymmetric ==
    InsightsReturned =>
        LET considered == Ids(_get_unique_documents(call.primary_results))
                              \cup Ids(ret.value.related_contexts)
        IN  \A d1, d2 \in call.db.documents :
                ( /\ d1.id \in considered /\ d2.id \in considered /\ d1.id # d2.id
                  /\ ComplementaryEitherWay(Techs(call.db, d1.id), Techs(call.db, d2.id)) )
                => \E k \in 1..Len(ret.value.insights) :
                      /\ ret.value.insights[k].kind = "integration"
                      /\ Range(ret.value.insights[k].titles) = {d1.title, d2.title}

====
